---- MODULE Spec2Model ----
(***************************************************************************)
(* State-machine model of the Angular SSR/CSR demonstration application:   *)
(*   - the hydration tracker repeated in HomeComponent, ProductsComponent, *)
(*     ReportsComponent and SsrDemoComponent;                              *)
(*   - the validated (CSR) and the basic slice of ContactComponent;        *)
(*   - ContactComponent.validateField as a function of its input string;   *)
(*   - the timers and live data of HomeComponent, ProductsComponent and    *)
(*     ReportsComponent;                                                   *)
(*   - ReportsComponent.updateLiveMetrics as a function of the metric list *)
(*     and of the draws of Math.random().                                  *)
(* Strings are sequences of one-character strings.  Date.now() is the      *)
(* variable now, an abstract clock that only moves forward.                *)
(***************************************************************************)
EXTENDS Integers, Sequences, FiniteSets, TLC

\* ------------------------------------------------------------------ bounds
MaxClock == 3          \* the clock stops advancing here
MaxPending == 2        \* pending setTimeout callbacks of one kind
MaxNameLen == 3        \* longest name string given to validateField
MaxEmailLen == 5       \* longest email string given to validateField
MaxSubjectLen == 2     \* longest subject string given to validateField
MaxMessageLen == 11    \* longest message string given to validateField
MaxCount == 2          \* the update counters stop here

\* signal<number | null>(null)
Null == -1

VARIABLES
    \* ---- hydration tracker (one page component instance)
    comp,               \* which page component this instance is
    isServer,           \* signal(typeof window === 'undefined')
    stage,              \* position in the framework's lifecycle
    now,                \* Date.now()
    componentCreated,   \* private readonly componentCreated = Date.now()
    isHydrated,
    hydrationTime,
    hydrationDuration,
    hydrationPhase,
    hydratePending,     \* pending setTimeout(markAsHydrated, 100) callbacks
    intervals,          \* running setInterval timers of the instance
    timeSignal,         \* serverTime / renderTime: the displayed clock
    activeTab,          \* SsrDemoComponent.activeTab
    showAnimations,     \* SsrDemoComponent.showAnimations
    animPending,        \* pending setTimeout(() => activateAnimations(), ..)
    activatePending,    \* pending activation callbacks of activateAnimations
    animationStates,    \* SsrDemoComponent.animationStates: the four records
    writers,            \* history: <<timer, signal>> for every signal a timer
                        \* callback of the instance has set so far
    \* ---- ContactComponent, validated (CSR) slice
    csrFormData,
    csrErrors,
    isCSRSubmitting,
    csrSubmitSuccess,
    csrPending,         \* pending setTimeout completion callbacks (1500 ms)
    lastOp,             \* the handler that ran last
    \* ---- ContactComponent, basic slice
    formData,
    isSubmitting,
    submitSuccess,
    ssrPending,         \* pending setTimeout completion callbacks (2000 ms)
    \* ---- live data of ReportsComponent and ProductsComponent
    loading,
    loadPending,        \* pending setTimeout(.., 800) of the initial load
    refreshPending,     \* pending setTimeout(.., 500) callbacks of refreshData
    reports,            \* ids of ReportsComponent.reports
    products,           \* ids of ProductsComponent.products
    realTimeData,
    dataUpdateCount,
    dataStreamRate,
    updateCount,
    realTimeStatus,
    connectionStatus,
    liveMetrics,        \* values in hundredths
    liveData,
    cartCount,
    wishlistCount,
    \* ---- updateLiveMetrics applied to one drawn list and one drawn draw of
    \*      Math.random() per metric
    mDeltas,
    mDone,
    \* ---- validateField applied to one drawn input
    vfField,
    vfValue,
    vfDone,
    \* ---- SsrDemoComponent: loading bar, error fallback, timing demo
    progress,           \* simulateLoading's local accumulator, in halves
    isLoading,
    loadingProgress,
    loadingMessage,
    errorState,
    showErrors,
    errorPending,       \* pending setTimeout(.., 2000) of setupErrorHandling
    retryPending,       \* pending setTimeout(.., 1000) callbacks of retryOperation
    renderStart,        \* startTime of the pending setTimeout(.., 300); else Null
    clientStart,        \* startTime of the pending setTimeout(.., 500); else Null
    serverRenderTime,
    clientHydrationTime,
    totalLoadTime,
    \* ---- ProductsComponent: the catalog and its view controls
    productList,        \* products(): the stored records, in stored order
    selectedCategory,
    sortBy,
    showOnlyInStock,
    shown,              \* the value filteredAndSortedProducts returned last
    \* ---- the Express server: the requests in the Angular SSR middleware
    requests

hydVars == <<comp, isServer, stage, now, componentCreated, isHydrated,
             hydrationTime, hydrationDuration, hydrationPhase, hydratePending,
             intervals, timeSignal, activeTab, showAnimations, animPending,
             activatePending, animationStates, writers>>
contactVars == <<csrFormData, csrErrors, isCSRSubmitting, csrSubmitSuccess,
                 csrPending, lastOp>>
basicVars == <<formData, isSubmitting, submitSuccess, ssrPending>>
vfVars == <<vfField, vfValue, vfDone>>
liveVars == <<loading, loadPending, refreshPending, reports, products,
              realTimeData, dataUpdateCount, dataStreamRate, updateCount,
              realTimeStatus, connectionStatus, liveMetrics, liveData,
              cartCount, wishlistCount>>
metricVars == <<mDeltas, mDone>>
demoVars == <<progress, isLoading, loadingProgress, loadingMessage, errorState,
              showErrors, errorPending, retryPending, renderStart, clientStart,
              serverRenderTime, clientHydrationTime, totalLoadTime>>
catalogVars == <<productList, selectedCategory, sortBy, showOnlyInStock, shown>>
serverVars == <<requests>>
vars == <<hydVars, contactVars, basicVars, vfVars, liveVars, metricVars,
          demoVars, catalogVars, serverVars>>

\* ======================================================= hydration tracker
Components == {"Home", "Products", "Reports", "SsrDemo"}
Tabs == {"graphs", "animations", "errors"}

\* The setInterval timers ngOnInit starts in the browser.
StartedIntervals(c) ==
    CASE c = "Home"     -> {"serverClock"}
      [] c = "Products" -> {"renderClock", "liveData", "connection", "userActivity"}
      [] c = "Reports"  -> {"dashboard", "stream", "connection"}
      [] c = "SsrDemo"  -> {"loading"}

\* Mutant of ClearedIntervals: ReportsComponent and ProductsComponent clear
\* their clock interval only.
ClearedIntervalsClockOnly(c) ==
    CASE c = "Home"     -> {}
      [] c = "Products" -> {"renderClock"}
      [] c = "Reports"  -> {}
      [] c = "SsrDemo"  -> {}

\* The setInterval timers ngOnDestroy clears (those whose id was stored).
ClearedIntervals(c) ==
    CASE c = "Home"     -> {}
      [] c = "Products" -> {"renderClock", "liveData"}
      [] c = "Reports"  -> {"dashboard", "stream"}
      [] c = "SsrDemo"  -> {}

\* Intervals whose whole callback is  <time signal>.set(new Date()).
ClockIntervals == {"serverClock", "renderClock"}

\* The signals markAsHydrated sets.
HydrationSignals ==
    {"isHydrated", "hydrationTime", "hydrationDuration", "hydrationPhase"}

\* The signal holding the displayed clock of component c.
TimeSignalName(c) ==
    CASE c = "Home"     -> "serverTime"
      [] c = "Products" -> "renderTime"
      [] c = "Reports"  -> "currentTime"

\* The callback of timer t sets the signals in S.
Wrote(t, S) == {<<t, x>> : x \in S}

\* Mutant of InitialPhase: the two branches exchanged.
InitialPhaseInverted(server) == IF server THEN "loading" ELSE "server"

\* if (typeof window === 'undefined') 'server' else 'loading'
InitialPhase(server) == IF server THEN "server" ELSE "loading"

\* animationStates as constructed: all four animations start active so
\* that they are present in the server's HTML.
InitialAnimations ==
    << [id |-> "fade-in",   isActive |-> TRUE, duration |-> 800, delay |-> 0],
       [id |-> "slide-up",  isActive |-> TRUE, duration |-> 600, delay |-> 200],
       [id |-> "scale-in",  isActive |-> TRUE, duration |-> 500, delay |-> 400],
       [id |-> "rotate-in", isActive |-> TRUE, duration |-> 700, delay |-> 600] >>

\* Mutant of SetActive: the last animation keeps its flag.
SetActiveSkipsLast(animations, flag) ==
    [i \in DOMAIN animations |->
        IF i = Len(animations) THEN animations[i]
        ELSE [animations[i] EXCEPT !.isActive = flag]]

\* animations.map(anim => ({ ...anim, isActive: flag })).
SetActive(animations, flag) ==
    [i \in DOMAIN animations |-> [animations[i] EXCEPT !.isActive = flag]]

HydrationInit ==
    /\ comp \in Components
    /\ isServer \in BOOLEAN
    /\ stage = "constructed"
    /\ now \in 0..1
    /\ componentCreated = now
    /\ isHydrated = FALSE
    /\ hydrationTime = Null
    /\ hydrationDuration = Null
    /\ hydrationPhase = "server"
    /\ hydratePending = 0
    /\ intervals = {}
    /\ timeSignal = IF comp = "SsrDemo" THEN Null ELSE now
    /\ activeTab = "graphs"
    /\ showAnimations = TRUE
    /\ animPending = 0
    /\ activatePending = 0
    /\ animationStates = InitialAnimations
    /\ writers = {}

\* Date.now() moves forward between handlers.
Tick ==
    /\ now < MaxClock
    /\ now' = now + 1
    /\ UNCHANGED <<comp, isServer, stage, componentCreated, isHydrated,
                   hydrationTime, hydrationDuration, hydrationPhase,
                   hydratePending, intervals, timeSignal, activeTab,
                   showAnimations, animPending, activatePending,
                   animationStates>>
    /\ UNCHANGED writers
    /\ UNCHANGED <<contactVars, basicVars, vfVars, liveVars, metricVars, demoVars,
                   catalogVars, serverVars>>

ngOnInit ==
    /\ stage = "constructed"
    /\ stage' = "inited"
    /\ hydrationPhase' = InitialPhase(isServer)
    /\ intervals' = IF isServer THEN {} ELSE StartedIntervals(comp)
    /\ UNCHANGED <<comp, isServer, now, componentCreated, isHydrated,
                   hydrationTime, hydrationDuration, hydratePending,
                   timeSignal, activeTab, showAnimations, animPending,
                   activatePending, animationStates>>
    /\ UNCHANGED writers
    /\ UNCHANGED <<contactVars, basicVars, vfVars, liveVars, metricVars, demoVars,
                   catalogVars, serverVars>>

\* Mutant of ngAfterViewInit: the browser guard dropped.
ngAfterViewInitUnguarded ==
    /\ stage = "inited"
    /\ stage' = "viewInited"
    /\ hydratePending' = hydratePending + 1
    /\ UNCHANGED <<comp, isServer, now, componentCreated, isHydrated,
                   hydrationTime, hydrationDuration, hydrationPhase,
                   intervals, timeSignal, activeTab, showAnimations,
                   animPending, activatePending, animationStates>>
    /\ UNCHANGED writers
    /\ UNCHANGED <<contactVars, basicVars, vfVars, liveVars, metricVars, demoVars,
                   catalogVars, serverVars>>

ngAfterViewInit ==
    /\ stage = "inited"
    /\ stage' = "viewInited"
    /\ hydratePending' = IF isServer THEN hydratePending ELSE hydratePending + 1
    /\ UNCHANGED <<comp, isServer, now, componentCreated, isHydrated,
                   hydrationTime, hydrationDuration, hydrationPhase,
                   intervals, timeSignal, activeTab, showAnimations,
                   animPending, activatePending, animationStates>>
    /\ UNCHANGED writers
    /\ UNCHANGED <<contactVars, basicVars, vfVars, liveVars, metricVars, demoVars,
                   catalogVars, serverVars>>

ngOnDestroy ==
    /\ stage = "viewInited"
    /\ stage' = "destroyed"
    /\ intervals' = intervals \ ClearedIntervals(comp)
    /\ UNCHANGED <<comp, isServer, now, componentCreated, isHydrated,
                   hydrationTime, hydrationDuration, hydrationPhase,
                   hydratePending, timeSignal, activeTab, showAnimations,
                   animPending, activatePending, animationStates>>
    /\ UNCHANGED writers
    /\ UNCHANGED <<contactVars, basicVars, vfVars, liveVars, metricVars, demoVars,
                   catalogVars, serverVars>>

\* Mutant of markAsHydrated: hydrationPhase is left as it was.
markAsHydratedKeepsPhase ==
    /\ hydratePending > 0
    /\ stage \in {"viewInited", "destroyed"}
    /\ hydratePending' = hydratePending - 1
    /\ isHydrated' = TRUE
    /\ hydrationTime' = now
    /\ hydrationDuration' = now - componentCreated
    /\ hydrationPhase' = hydrationPhase
    /\ animPending' = IF comp = "SsrDemo" /\ activeTab = "animations" /\ showAnimations
                      THEN animPending + 1 ELSE animPending
    /\ UNCHANGED <<comp, isServer, stage, now, componentCreated, intervals,
                   timeSignal, activeTab, showAnimations, activatePending,
                   animationStates>>
    /\ writers' = writers \cup Wrote("hydrate", HydrationSignals)
    /\ UNCHANGED <<contactVars, basicVars, vfVars, liveVars, metricVars, demoVars,
                   catalogVars, serverVars>>

\* Mutant of markAsHydrated: the callback stays scheduled, as the callback of
\* a setInterval would.
markAsHydratedRepeating ==
    /\ hydratePending > 0
    /\ stage \in {"viewInited", "destroyed"}
    /\ hydratePending' = hydratePending
    /\ isHydrated' = TRUE
    /\ hydrationTime' = now
    /\ hydrationDuration' = now - componentCreated
    /\ hydrationPhase' = "hydrated"
    /\ animPending' = IF comp = "SsrDemo" /\ activeTab = "animations" /\ showAnimations
                      THEN animPending + 1 ELSE animPending
    /\ UNCHANGED <<comp, isServer, stage, now, componentCreated, intervals,
                   timeSignal, activeTab, showAnimations, activatePending,
                   animationStates>>
    /\ writers' = writers \cup Wrote("hydrate", HydrationSignals)
    /\ UNCHANGED <<contactVars, basicVars, vfVars, liveVars, metricVars, demoVars,
                   catalogVars, serverVars>>

\* Mutant of markAsHydrated: the duration is not taken relative to
\* componentCreated.
markAsHydratedAbsoluteDuration ==
    /\ hydratePending > 0
    /\ stage \in {"viewInited", "destroyed"}
    /\ hydratePending' = hydratePending - 1
    /\ isHydrated' = TRUE
    /\ hydrationTime' = now
    /\ hydrationDuration' = now
    /\ hydrationPhase' = "hydrated"
    /\ animPending' = IF comp = "SsrDemo" /\ activeTab = "animations" /\ showAnimations
                      THEN animPending + 1 ELSE animPending
    /\ UNCHANGED <<comp, isServer, stage, now, componentCreated, intervals,
                   timeSignal, activeTab, showAnimations, activatePending,
                   animationStates>>
    /\ writers' = writers \cup Wrote("hydrate", HydrationSignals)
    /\ UNCHANGED <<contactVars, basicVars, vfVars, liveVars, metricVars, demoVars,
                   catalogVars, serverVars>>

\* The callback of setTimeout(() => this.markAsHydrated(), 100).
markAsHydrated ==
    /\ hydratePending > 0
    /\ stage \in {"viewInited", "destroyed"}
    /\ hydratePending' = hydratePending - 1
    /\ isHydrated' = TRUE
    /\ hydrationTime' = now
    /\ hydrationDuration' = now - componentCreated
    /\ hydrationPhase' = "hydrated"
    /\ animPending' = IF comp = "SsrDemo" /\ activeTab = "animations" /\ showAnimations
                      THEN animPending + 1 ELSE animPending
    /\ UNCHANGED <<comp, isServer, stage, now, componentCreated, intervals,
                   timeSignal, activeTab, showAnimations, activatePending,
                   animationStates>>
    /\ writers' = writers \cup Wrote("hydrate", HydrationSignals)
    /\ UNCHANGED <<contactVars, basicVars, vfVars, liveVars, metricVars, demoVars,
                   catalogVars, serverVars>>

\* The callback of a clock interval: <time signal>.set(new Date()...).
clockInterval ==
    /\ stage \in {"viewInited", "destroyed"}
    /\ \E t \in intervals \cap ClockIntervals :
          /\ timeSignal' = now
          /\ writers' = writers \cup Wrote(t, {TimeSignalName(comp)})
    /\ UNCHANGED <<comp, isServer, stage, now, componentCreated, isHydrated,
                   hydrationTime, hydrationDuration, hydrationPhase,
                   hydratePending, intervals, activeTab, showAnimations,
                   animPending, activatePending, animationStates>>
    /\ UNCHANGED <<contactVars, basicVars, vfVars, liveVars, metricVars, demoVars,
                   catalogVars, serverVars>>

\* User actions of SsrDemoComponent, available once the view is attached.
UserCanAct ==
    /\ comp = "SsrDemo"
    /\ ~isServer
    /\ stage = "viewInited"
    /\ animPending + activatePending < MaxPending

setActiveTab(tab) ==
    /\ UserCanAct
    /\ activeTab' = tab
    /\ animPending' = IF tab = "animations" /\ showAnimations
                      THEN animPending + 1 ELSE animPending
    /\ UNCHANGED <<comp, isServer, stage, now, componentCreated, isHydrated,
                   hydrationTime, hydrationDuration, hydrationPhase,
                   hydratePending, intervals, timeSignal, showAnimations,
                   activatePending, animationStates>>
    /\ UNCHANGED writers
    /\ UNCHANGED <<contactVars, basicVars, vfVars, liveVars, metricVars, demoVars,
                   catalogVars, serverVars>>

toggleAnimations ==
    /\ UserCanAct
    /\ showAnimations' = ~showAnimations
    /\ animPending' = IF showAnimations' THEN animPending + 1 ELSE animPending
    /\ UNCHANGED <<comp, isServer, stage, now, componentCreated, isHydrated,
                   hydrationTime, hydrationDuration, hydrationPhase,
                   hydratePending, intervals, timeSignal, activeTab,
                   activatePending, animationStates>>
    /\ UNCHANGED writers
    /\ UNCHANGED <<contactVars, basicVars, vfVars, liveVars, metricVars, demoVars,
                   catalogVars, serverVars>>

\* The callback of setTimeout(() => this.activateAnimations(), ..): the
\* flags are reset and the activation callback is scheduled.
activateAnimations ==
    /\ animPending > 0
    /\ animPending' = animPending - 1
    /\ animationStates' = SetActive(animationStates, FALSE)
    /\ activatePending' = activatePending + 1
    /\ UNCHANGED <<comp, isServer, stage, now, componentCreated, isHydrated,
                   hydrationTime, hydrationDuration, hydrationPhase,
                   hydratePending, intervals, timeSignal, activeTab,
                   showAnimations>>
    /\ writers' = writers \cup Wrote("animate", {"animationStates"})
    /\ UNCHANGED <<contactVars, basicVars, vfVars, liveVars, metricVars, demoVars,
                   catalogVars, serverVars>>

\* The callback scheduled inside activateAnimations (100 ms).
activationTimeout ==
    /\ activatePending > 0
    /\ activatePending' = activatePending - 1
    /\ animationStates' = SetActive(animationStates, TRUE)
    /\ UNCHANGED <<comp, isServer, stage, now, componentCreated, isHydrated,
                   hydrationTime, hydrationDuration, hydrationPhase,
                   hydratePending, intervals, timeSignal, activeTab,
                   showAnimations, animPending>>
    /\ writers' = writers \cup Wrote("activation", {"animationStates"})
    /\ UNCHANGED <<contactVars, basicVars, vfVars, liveVars, metricVars, demoVars,
                   catalogVars, serverVars>>

\* ================= live data of ReportsComponent and ProductsComponent
LiveComponents == {"Home", "Products", "Reports"}
ReportIds == 1..6
ProductIds == 1..6

Min(a, b) == IF a < b THEN a ELSE b
Max(a, b) == IF a > b THEN a ELSE b

\* Values generateDynamicValue(50, 100, seed) can return (its two extremes).
LoadSamples == {50, 100}
\* Values Math.sin(seed / 1000) * 10 takes (its two extremes).
DriftSamples == {-10, 10}
\* Values Math.floor(Math.random() * 50) + 10 takes (its two extremes).
StockSamples == {10, 59}
\* Whole parts of (Math.random() - 0.5) * 5 after Math.floor (its two extremes).
StockChangeSamples == {-3, 2}

\* The metric list of initializeLiveMetrics; values in hundredths.
InitialMetrics ==
    << [name |-> "CPU Usage",       value |-> 4500,   trend |-> "stable"],
       [name |-> "Memory Usage",    value |-> 6200,   trend |-> "up"],
       [name |-> "Network Latency", value |-> 2800,   trend |-> "down"],
       [name |-> "Active Users",    value |-> 123400, trend |-> "up"],
       [name |-> "Requests/sec",    value |-> 15600,  trend |-> "up"],
       [name |-> "Error Rate",      value |-> 20,     trend |-> "stable"] >>

\* (Math.random() - 0.5) * 10 in hundredths: Math.random() is in [0, 1), so
\* the change is in [-500, 500).  The samples are the two ends of the range
\* and the values next to the two trend thresholds.
ChangeSamples == {-500, -201, -200, 200, 201, 499}

\* Mutant of TrendOf: the thresholds are inclusive.
TrendOfInclusive(change) ==
    IF change >= 200 THEN "up"
    ELSE IF change <= -200 THEN "down"
    ELSE "stable"

\* let trend = 'stable'; if (change > 2) trend = 'up';
\* else if (change < -2) trend = 'down';
TrendOf(change) ==
    IF change > 200 THEN "up"
    ELSE IF change < -200 THEN "down"
    ELSE "stable"

\* Mutant of RoundTenth: the value is truncated.
RoundTenthDown(x) == (x \div 10) * 10

\* Math.round(x * 10) / 10 for x >= 0, in hundredths.
RoundTenth(x) == ((x + 5) \div 10) * 10

\* The body of the map callback of updateLiveMetrics.
updateMetric(metric, change) ==
    LET newValue == Max(0, Min(10000, metric.value + change)) IN
    [name |-> metric.name, value |-> RoundTenth(newValue), trend |-> TrendOf(change)]

\* currentMetrics.map(..), changes[i] being the draw made for metric i.
updateLiveMetrics(metrics, changes) ==
    [i \in 1..Len(metrics) |-> updateMetric(metrics[i], changes[i])]

\* currentData.map(value => Math.max(30, Math.min(100, value + change)))
updateRealTimeData(data, change) ==
    [i \in 1..Len(data) |-> Max(30, Min(100, data[i] + change))]

\* loadData(): reports, performanceMetrics, chartData and realTimeData are
\* all set from the time-based seed.
loadData ==
    /\ reports' = ReportIds
    /\ \E v \in LoadSamples : realTimeData' = [i \in 1..6 |-> v]

LoadDataSignals == {"reports", "performanceMetrics", "chartData", "realTimeData"}

\* updateLiveData(): every entry of the map is replaced, no key is added.
updateLiveData ==
    \E change \in [DOMAIN liveData -> StockChangeSamples] :
        liveData' = [id \in DOMAIN liveData |->
                        [stockCount |-> Max(0, liveData[id].stockCount + change[id])]]

LiveInit ==
    /\ comp \in LiveComponents
    /\ loading = TRUE
    /\ loadPending = 0
    /\ refreshPending = 0
    /\ reports = {}
    /\ products = {}
    /\ realTimeData = <<>>
    /\ dataUpdateCount = 0
    /\ dataStreamRate = 0
    /\ updateCount = 0
    /\ realTimeStatus = "Inactive"
    /\ connectionStatus = "Connected"
    /\ liveMetrics = <<>>
    /\ liveData = <<>>
    /\ cartCount = 0
    /\ wishlistCount = 0

\* Mutant of ngOnInitLive: the intervals are started without the
\* typeof window guard.
ngOnInitLiveUnguarded ==
    /\ stage = "constructed"
    /\ stage' = "inited"
    /\ hydrationPhase' = InitialPhase(isServer)
    /\ intervals' = StartedIntervals(comp)
    /\ CASE comp = "Home" ->
              UNCHANGED <<loading, loadPending, reports, products, realTimeData,
                          liveData>>
         [] comp = "Reports" /\ isServer ->
              /\ loadData
              /\ loading' = FALSE
              /\ UNCHANGED <<loadPending, products, liveData>>
         [] comp = "Reports" /\ ~isServer ->
              /\ loadPending' = loadPending + 1
              /\ UNCHANGED <<loading, reports, products, realTimeData, liveData>>
         [] comp = "Products" /\ isServer ->
              /\ products' = ProductIds
              /\ loading' = FALSE
              /\ UNCHANGED <<loadPending, reports, realTimeData, liveData>>
         [] comp = "Products" /\ ~isServer ->
              /\ loadPending' = loadPending + 1
              /\ \E stock \in [products -> StockSamples] :
                    liveData' = [id \in products |-> [stockCount |-> stock[id]]]
              /\ UNCHANGED <<loading, reports, products, realTimeData>>
    /\ UNCHANGED <<comp, isServer, now, componentCreated, isHydrated,
                   hydrationTime, hydrationDuration, hydratePending,
                   timeSignal, activeTab, showAnimations, animPending,
                   activatePending, animationStates, writers>>
    /\ UNCHANGED <<refreshPending, dataUpdateCount, dataStreamRate, updateCount,
                   realTimeStatus, connectionStatus, liveMetrics, cartCount,
                   wishlistCount>>
    /\ UNCHANGED <<contactVars, basicVars, vfVars, metricVars, demoVars,
                   catalogVars, serverVars>>

\* ngOnInit of HomeComponent, ProductsComponent and ReportsComponent, with
\* loadInitialData / loadProducts, initializeLiveData, startRealTimeUpdates
\* and simulateUserActivity.
ngOnInitLive ==
    /\ stage = "constructed"
    /\ stage' = "inited"
    /\ hydrationPhase' = InitialPhase(isServer)
    /\ intervals' = IF isServer THEN {} ELSE StartedIntervals(comp)
    /\ CASE comp = "Home" ->
              UNCHANGED <<loading, loadPending, reports, products, realTimeData,
                          liveData>>
         [] comp = "Reports" /\ isServer ->
              /\ loadData
              /\ loading' = FALSE
              /\ UNCHANGED <<loadPending, products, liveData>>
         [] comp = "Reports" /\ ~isServer ->
              /\ loadPending' = loadPending + 1
              /\ UNCHANGED <<loading, reports, products, realTimeData, liveData>>
         [] comp = "Products" /\ isServer ->
              /\ products' = ProductIds
              /\ loading' = FALSE
              /\ UNCHANGED <<loadPending, reports, realTimeData, liveData>>
         [] comp = "Products" /\ ~isServer ->
              /\ loadPending' = loadPending + 1
              /\ \E stock \in [products -> StockSamples] :
                    liveData' = [id \in products |-> [stockCount |-> stock[id]]]
              /\ UNCHANGED <<loading, reports, products, realTimeData>>
    /\ UNCHANGED <<comp, isServer, now, componentCreated, isHydrated,
                   hydrationTime, hydrationDuration, hydratePending,
                   timeSignal, activeTab, showAnimations, animPending,
                   activatePending, animationStates, writers>>
    /\ UNCHANGED <<refreshPending, dataUpdateCount, dataStreamRate, updateCount,
                   realTimeStatus, connectionStatus, liveMetrics, cartCount,
                   wishlistCount>>
    /\ UNCHANGED <<contactVars, basicVars, vfVars, metricVars, demoVars,
                   catalogVars, serverVars>>

\* The callback of the setTimeout(.., 800) of loadInitialData / loadProducts.
loadTimeout ==
    /\ loadPending > 0
    /\ stage \in {"viewInited", "destroyed"}
    /\ loadPending' = loadPending - 1
    /\ loading' = FALSE
    /\ IF comp = "Reports"
       THEN /\ loadData
            /\ liveMetrics' = InitialMetrics
            /\ writers' = writers \cup
                   Wrote("load", LoadDataSignals \cup {"loading", "liveMetrics"})
            /\ UNCHANGED products
       ELSE /\ products' = ProductIds
            /\ writers' = writers \cup Wrote("load", {"products", "loading"})
            /\ UNCHANGED <<reports, realTimeData, liveMetrics>>
    /\ UNCHANGED <<comp, isServer, stage, now, componentCreated, isHydrated,
                   hydrationTime, hydrationDuration, hydrationPhase,
                   hydratePending, intervals, timeSignal, activeTab,
                   showAnimations, animPending, activatePending,
                   animationStates>>
    /\ UNCHANGED <<refreshPending, dataUpdateCount, dataStreamRate, updateCount,
                   realTimeStatus, connectionStatus, liveData, cartCount,
                   wishlistCount>>
    /\ UNCHANGED <<contactVars, basicVars, vfVars, metricVars, demoVars,
                   catalogVars, serverVars>>

\* ReportsComponent.refreshData, a user action.
refreshData ==
    /\ comp = "Reports"
    /\ ~isServer
    /\ stage = "viewInited"
    /\ refreshPending < MaxPending
    /\ loading' = TRUE
    /\ refreshPending' = refreshPending + 1
    /\ UNCHANGED hydVars
    /\ UNCHANGED <<loadPending, reports, products, realTimeData, dataUpdateCount,
                   dataStreamRate, updateCount, realTimeStatus, connectionStatus,
                   liveMetrics, liveData, cartCount, wishlistCount>>
    /\ UNCHANGED <<contactVars, basicVars, vfVars, metricVars, demoVars,
                   catalogVars, serverVars>>

\* The callback of the setTimeout(.., 500) of refreshData.
refreshTimeout ==
    /\ refreshPending > 0
    /\ refreshPending' = refreshPending - 1
    /\ loadData
    /\ loading' = FALSE
    /\ writers' = writers \cup Wrote("refresh", LoadDataSignals \cup {"loading"})
    /\ UNCHANGED <<comp, isServer, stage, now, componentCreated, isHydrated,
                   hydrationTime, hydrationDuration, hydrationPhase,
                   hydratePending, intervals, timeSignal, activeTab,
                   showAnimations, animPending, activatePending,
                   animationStates>>
    /\ UNCHANGED <<loadPending, products, dataUpdateCount, dataStreamRate,
                   updateCount, realTimeStatus, connectionStatus, liveMetrics,
                   liveData, cartCount, wishlistCount>>
    /\ UNCHANGED <<contactVars, basicVars, vfVars, metricVars, demoVars,
                   catalogVars, serverVars>>

\* The callback of the 2 s interval of ReportsComponent (intervalId).
dashboardInterval ==
    /\ "dashboard" \in intervals
    /\ stage \in {"viewInited", "destroyed"}
    /\ dataUpdateCount < MaxCount
    /\ timeSignal' = now
    /\ \E change \in DriftSamples :
          realTimeData' = updateRealTimeData(realTimeData, change)
    /\ dataUpdateCount' = dataUpdateCount + 1
    /\ writers' = writers \cup
           Wrote("dashboard", {"currentTime", "realTimeData", "dataUpdateCount"})
    /\ UNCHANGED <<comp, isServer, stage, now, componentCreated, isHydrated,
                   hydrationTime, hydrationDuration, hydrationPhase,
                   hydratePending, intervals, activeTab, showAnimations,
                   animPending, activatePending, animationStates>>
    /\ UNCHANGED <<loading, loadPending, refreshPending, reports, products,
                   dataStreamRate, updateCount, realTimeStatus,
                   connectionStatus, liveMetrics, liveData, cartCount,
                   wishlistCount>>
    /\ UNCHANGED <<contactVars, basicVars, vfVars, metricVars, demoVars,
                   catalogVars, serverVars>>

\* The callback of the 500 ms interval of ReportsComponent
\* (realTimeIntervalId).
streamInterval ==
    /\ "stream" \in intervals
    /\ stage \in {"viewInited", "destroyed"}
    /\ dataStreamRate < MaxCount
    /\ \E change \in {-500, 499} :
          liveMetrics' = updateLiveMetrics(liveMetrics,
                                           [i \in 1..Len(liveMetrics) |-> change])
    /\ dataStreamRate' = dataStreamRate + 1
    /\ realTimeStatus' = "Active"
    /\ writers' = writers \cup
           Wrote("stream", {"liveMetrics", "dataStreamRate", "realTimeStatus"})
    /\ UNCHANGED <<comp, isServer, stage, now, componentCreated, isHydrated,
                   hydrationTime, hydrationDuration, hydrationPhase,
                   hydratePending, intervals, timeSignal, activeTab,
                   showAnimations, animPending, activatePending,
                   animationStates>>
    /\ UNCHANGED <<loading, loadPending, refreshPending, reports, products,
                   realTimeData, dataUpdateCount, updateCount, connectionStatus,
                   liveData, cartCount, wishlistCount>>
    /\ UNCHANGED <<contactVars, basicVars, vfVars, metricVars, demoVars,
                   catalogVars, serverVars>>

\* Mutant of connectionInterval: the callback reports on realTimeStatus
\* too.
connectionIntervalSetsStatus ==
    /\ "connection" \in intervals
    /\ stage \in {"viewInited", "destroyed"}
    /\ \E status \in {"Reconnecting...", "Connected"} : connectionStatus' = status
    /\ realTimeStatus' = "Active"
    /\ writers' = writers \cup Wrote("connection", {"connectionStatus", "realTimeStatus"})
    /\ UNCHANGED <<comp, isServer, stage, now, componentCreated, isHydrated,
                   hydrationTime, hydrationDuration, hydrationPhase,
                   hydratePending, intervals, timeSignal, activeTab,
                   showAnimations, animPending, activatePending,
                   animationStates>>
    /\ UNCHANGED <<loading, loadPending, refreshPending, reports, products,
                   realTimeData, dataUpdateCount, dataStreamRate, updateCount,
                   liveMetrics, liveData, cartCount, wishlistCount>>
    /\ UNCHANGED <<contactVars, basicVars, vfVars, metricVars, demoVars,
                   catalogVars, serverVars>>

\* The callback of the connection-status interval (10 s in
\* ReportsComponent, 15 s in ProductsComponent), whose id is not kept.
connectionInterval ==
    /\ "connection" \in intervals
    /\ stage \in {"viewInited", "destroyed"}
    /\ \E status \in {"Reconnecting...", "Connected"} : connectionStatus' = status
    /\ writers' = writers \cup Wrote("connection", {"connectionStatus"})
    /\ UNCHANGED <<comp, isServer, stage, now, componentCreated, isHydrated,
                   hydrationTime, hydrationDuration, hydrationPhase,
                   hydratePending, intervals, timeSignal, activeTab,
                   showAnimations, animPending, activatePending,
                   animationStates>>
    /\ UNCHANGED <<loading, loadPending, refreshPending, reports, products,
                   realTimeData, dataUpdateCount, dataStreamRate, updateCount,
                   realTimeStatus, liveMetrics, liveData, cartCount,
                   wishlistCount>>
    /\ UNCHANGED <<contactVars, basicVars, vfVars, metricVars, demoVars,
                   catalogVars, serverVars>>

\* The callback of the 3 s interval of ProductsComponent
\* (liveDataIntervalId).
liveDataInterval ==
    /\ "liveData" \in intervals
    /\ stage \in {"viewInited", "destroyed"}
    /\ updateCount < MaxCount
    /\ updateLiveData
    /\ updateCount' = updateCount + 1
    /\ realTimeStatus' = "Active"
    /\ writers' = writers \cup
           Wrote("liveData", {"liveData", "updateCount", "realTimeStatus"})
    /\ UNCHANGED <<comp, isServer, stage, now, componentCreated, isHydrated,
                   hydrationTime, hydrationDuration, hydrationPhase,
                   hydratePending, intervals, timeSignal, activeTab,
                   showAnimations, animPending, activatePending,
                   animationStates>>
    /\ UNCHANGED <<loading, loadPending, refreshPending, reports, products,
                   realTimeData, dataUpdateCount, dataStreamRate,
                   connectionStatus, liveMetrics, cartCount, wishlistCount>>
    /\ UNCHANGED <<contactVars, basicVars, vfVars, metricVars, demoVars,
                   catalogVars, serverVars>>

\* The callback of the 10 s interval of simulateUserActivity, whose id is
\* not kept; each of the two draws of Math.random() may pass its threshold.
userActivityInterval ==
    /\ "userActivity" \in intervals
    /\ stage \in {"viewInited", "destroyed"}
    /\ \E toCart, toWishlist \in BOOLEAN :
          /\ toCart => cartCount < MaxCount
          /\ toWishlist => wishlistCount < MaxCount
          /\ cartCount' = IF toCart THEN cartCount + 1 ELSE cartCount
          /\ wishlistCount' = IF toWishlist THEN wishlistCount + 1 ELSE wishlistCount
          /\ writers' = writers \cup
                 Wrote("userActivity",
                       (IF toCart THEN {"cartCount"} ELSE {}) \cup
                       (IF toWishlist THEN {"wishlistCount"} ELSE {}))
    /\ UNCHANGED <<comp, isServer, stage, now, componentCreated, isHydrated,
                   hydrationTime, hydrationDuration, hydrationPhase,
                   hydratePending, intervals, timeSignal, activeTab,
                   showAnimations, animPending, activatePending,
                   animationStates>>
    /\ UNCHANGED <<loading, loadPending, refreshPending, reports, products,
                   realTimeData, dataUpdateCount, dataStreamRate, updateCount,
                   realTimeStatus, connectionStatus, liveMetrics, liveData>>
    /\ UNCHANGED <<contactVars, basicVars, vfVars, metricVars, demoVars,
                   catalogVars, serverVars>>

\* ========================= updateLiveMetrics applied to one drawn list
\* Metric lists the component can hold: none before the initial load, the
\* initial list, and lists left by an earlier update.
MetricLists ==
    {<<>>, InitialMetrics}
        \cup {updateLiveMetrics(InitialMetrics, [i \in 1..6 |-> change]) :
                 change \in {-500, 499}}

MetricInit ==
    /\ liveMetrics \in MetricLists
    /\ mDeltas \in [1..Len(liveMetrics) -> ChangeSamples]
    /\ mDone = FALSE

updateLiveMetricsCall ==
    /\ ~mDone
    /\ mDone' = TRUE
    /\ liveMetrics' = updateLiveMetrics(liveMetrics, mDeltas)
    /\ UNCHANGED mDeltas
    /\ UNCHANGED <<loading, loadPending, refreshPending, reports, products,
                   realTimeData, dataUpdateCount, dataStreamRate, updateCount,
                   realTimeStatus, connectionStatus, liveData, cartCount,
                   wishlistCount>>
    /\ UNCHANGED <<hydVars, contactVars, basicVars, vfVars, demoVars,
                   catalogVars, serverVars>>

\* ============================================ ContactComponent: validation
Fields == {"name", "email", "subject", "message"}

\* The characters String.prototype.trim() strips and \s matches.
WhiteSpace == {" ", "\t", "\n"}

RECURSIVE TrimStart(_)
TrimStart(s) ==
    IF s # <<>> /\ Head(s) \in WhiteSpace THEN TrimStart(Tail(s)) ELSE s

RECURSIVE TrimEnd(_)
TrimEnd(s) ==
    IF s # <<>> /\ s[Len(s)] \in WhiteSpace
    THEN TrimEnd(SubSeq(s, 1, Len(s) - 1))
    ELSE s

\* value.trim()
trim(s) == TrimEnd(TrimStart(s))

\* [^\s@]
EmailClass(c) == c \notin WhiteSpace /\ c # "@"

\* The automaton of /^[^\s@]+@[^\s@]+\.[^\s@]+$/ : state q is the number of
\* pattern items entered, 5 being the accepting state.
RegexStep(q, c) ==
    CASE q = 0 -> IF EmailClass(c) THEN {1} ELSE {}
      [] q = 1 -> (IF EmailClass(c) THEN {1} ELSE {}) \cup (IF c = "@" THEN {2} ELSE {})
      [] q = 2 -> IF EmailClass(c) THEN {3} ELSE {}
      [] q = 3 -> (IF EmailClass(c) THEN {3} ELSE {}) \cup (IF c = "." THEN {4} ELSE {})
      [] q = 4 -> IF EmailClass(c) THEN {5} ELSE {}
      [] q = 5 -> IF EmailClass(c) THEN {5} ELSE {}

RECURSIVE RegexRun(_, _)
RegexRun(Q, s) ==
    IF s = <<>> THEN Q
    ELSE RegexRun(UNION {RegexStep(q, Head(s)) : q \in Q}, Tail(s))

\* Mutant of emailRegexTest: the pattern without its  \.[^\s@]+  tail.
emailRegexTestNoDot(s) == RegexRun({0}, s) \cap {3, 5} # {}

\* emailRegex.test(value)
emailRegexTest(s) == 5 \in RegexRun({0}, s)

\* The message each rule assigns; NoError where the rule deletes the entry.
NoError == ""

\* Mutant of nameError: the length is taken of the untrimmed value.
nameErrorUntrimmedLength(value) ==
    IF trim(value) = <<>> THEN "Name is required"
    ELSE IF Len(value) < 2 THEN "Name must be at least 2 characters"
    ELSE NoError

nameError(value) ==
    IF trim(value) = <<>> THEN "Name is required"
    ELSE IF Len(trim(value)) < 2 THEN "Name must be at least 2 characters"
    ELSE NoError

emailError(value) ==
    IF trim(value) = <<>> THEN "Email is required"
    ELSE IF ~emailRegexTest(value) THEN "Please enter a valid email address"
    ELSE NoError

\* Mutant of subjectError: the value is trimmed first, as for the other fields.
subjectErrorTrimmed(value) ==
    IF trim(value) = <<>> THEN "Please select a subject" ELSE NoError

subjectError(value) ==
    IF value = <<>> THEN "Please select a subject" ELSE NoError

\* Mutant of messageError: <= in place of <.
messageErrorOffByOne(value) ==
    IF trim(value) = <<>> THEN "Message is required"
    ELSE IF Len(trim(value)) <= 10 THEN "Message must be at least 10 characters"
    ELSE NoError

messageError(value) ==
    IF trim(value) = <<>> THEN "Message is required"
    ELSE IF Len(trim(value)) < 10 THEN "Message must be at least 10 characters"
    ELSE NoError

\* signal<FormErrors>({})
NoErrors == [f \in {} |-> NoError]

\* Mutant of validateField: errors starts as {} instead of a copy of the
\* current map.
validateFieldFresh(errors, field, value) ==
    LET msg == CASE field = "name"    -> nameError(value)
                 [] field = "email"   -> emailError(value)
                 [] field = "subject" -> subjectError(value)
                 [] field = "message" -> messageError(value)
    IN IF msg = NoError
       THEN [f \in {} |-> NoError]
       ELSE [f \in {field} |-> msg]

\* const errors = { ...this.csrErrors() }; switch (field) ...; the result is
\* what this.csrErrors.set(errors) stores.
validateField(errors, field, value) ==
    LET msg == CASE field = "name"    -> nameError(value)
                 [] field = "email"   -> emailError(value)
                 [] field = "subject" -> subjectError(value)
                 [] field = "message" -> messageError(value)
    IN IF msg = NoError
       THEN [f \in DOMAIN errors \ {field} |-> errors[f]]
       ELSE [f \in DOMAIN errors \cup {field} |-> IF f = field THEN msg ELSE errors[f]]

\* ================================== ContactComponent: validated (CSR) form
\* The values the form's inputs deliver to the field setters.
NameInputs == {<<>>, <<"J">>, <<"J", "o">>, <<" ", "J", " ">>}
EmailInputs == {<<>>, <<"b", "a", "d">>, <<"a", "@", "b", ".", "c", "o">>}
SubjectInputs == {<<>>, <<"G", "e", "n", "e", "r", "a", "l">>, <<"x">>}
MessageInputs ==
    {<<>>, <<"s", "h", "o", "r", "t">>,
     <<"H", "e", "l", "l", "o", " ", "t", "h", "e", "r", "e", "!">>}

\* The initial value of formData / csrFormData, and what resetCSRForm stores.
EmptyForm ==
    [name |-> <<>>, email |-> <<>>, subject |-> <<>>, message |-> <<>>,
     newsletter |-> FALSE]

ContactInit ==
    /\ csrFormData = EmptyForm
    /\ csrErrors = NoErrors
    /\ isCSRSubmitting = FALSE
    /\ csrSubmitSuccess = FALSE
    /\ csrPending = 0
    /\ lastOp = "constructor"

updateCSRName(value) ==
    /\ csrFormData' = [csrFormData EXCEPT !.name = value]
    /\ csrErrors' = validateField(csrErrors, "name", value)
    /\ lastOp' = "updateCSRName"
    /\ UNCHANGED <<isCSRSubmitting, csrSubmitSuccess, csrPending>>
    /\ UNCHANGED <<hydVars, basicVars, vfVars, liveVars, metricVars, demoVars,
                   catalogVars, serverVars>>

updateCSREmail(value) ==
    /\ csrFormData' = [csrFormData EXCEPT !.email = value]
    /\ csrErrors' = validateField(csrErrors, "email", value)
    /\ lastOp' = "updateCSREmail"
    /\ UNCHANGED <<isCSRSubmitting, csrSubmitSuccess, csrPending>>
    /\ UNCHANGED <<hydVars, basicVars, vfVars, liveVars, metricVars, demoVars,
                   catalogVars, serverVars>>

updateCSRSubject(value) ==
    /\ csrFormData' = [csrFormData EXCEPT !.subject = value]
    /\ csrErrors' = validateField(csrErrors, "subject", value)
    /\ lastOp' = "updateCSRSubject"
    /\ UNCHANGED <<isCSRSubmitting, csrSubmitSuccess, csrPending>>
    /\ UNCHANGED <<hydVars, basicVars, vfVars, liveVars, metricVars, demoVars,
                   catalogVars, serverVars>>

updateCSRMessage(value) ==
    /\ csrFormData' = [csrFormData EXCEPT !.message = value]
    /\ csrErrors' = validateField(csrErrors, "message", value)
    /\ lastOp' = "updateCSRMessage"
    /\ UNCHANGED <<isCSRSubmitting, csrSubmitSuccess, csrPending>>
    /\ UNCHANGED <<hydVars, basicVars, vfVars, liveVars, metricVars, demoVars,
                   catalogVars, serverVars>>

updateCSRNewsletter(value) ==
    /\ csrFormData' = [csrFormData EXCEPT !.newsletter = value]
    /\ lastOp' = "updateCSRNewsletter"
    /\ UNCHANGED <<csrErrors, isCSRSubmitting, csrSubmitSuccess, csrPending>>
    /\ UNCHANGED <<hydVars, basicVars, vfVars, liveVars, metricVars, demoVars,
                   catalogVars, serverVars>>

\* Mutant of validateAll: the message field is not validated again.
validateAllButMessage(errors, data) ==
    validateField(
        validateField(
            validateField(errors, "name", data.name),
            "email", data.email),
        "subject", data.subject)

\* The four validateField calls at the head of onCSRSubmit, in order.
validateAll(errors, data) ==
    validateField(
        validateField(
            validateField(
                validateField(errors, "name", data.name),
                "email", data.email),
            "subject", data.subject),
        "message", data.message)

onCSRSubmit ==
    LET errors == validateAll(csrErrors, csrFormData) IN
    /\ csrErrors' = errors
    /\ IF DOMAIN errors # {}
       THEN /\ lastOp' = "onCSRSubmit:rejected"
            /\ UNCHANGED <<isCSRSubmitting, csrPending>>
       ELSE /\ csrPending < MaxPending
            /\ lastOp' = "onCSRSubmit:scheduled"
            /\ isCSRSubmitting' = TRUE
            /\ csrPending' = csrPending + 1
    /\ UNCHANGED <<csrFormData, csrSubmitSuccess>>
    /\ UNCHANGED <<hydVars, basicVars, vfVars, liveVars, metricVars, demoVars,
                   catalogVars, serverVars>>

\* Mutant of csrSubmitTimeout: resetCSRForm leaves the error map alone.
csrSubmitTimeoutKeepsErrors ==
    /\ csrPending > 0
    /\ csrPending' = csrPending - 1
    /\ isCSRSubmitting' = FALSE
    /\ csrSubmitSuccess' = TRUE
    /\ csrFormData' = EmptyForm
    /\ lastOp' = "csrSubmitTimeout"
    /\ UNCHANGED csrErrors
    /\ UNCHANGED <<hydVars, basicVars, vfVars, liveVars, metricVars, demoVars,
                   catalogVars, serverVars>>

\* The callback of the setTimeout(.., 1500) in onCSRSubmit, resetCSRForm
\* included.
csrSubmitTimeout ==
    /\ csrPending > 0
    /\ csrPending' = csrPending - 1
    /\ isCSRSubmitting' = FALSE
    /\ csrSubmitSuccess' = TRUE
    /\ csrFormData' = EmptyForm
    /\ csrErrors' = NoErrors
    /\ lastOp' = "csrSubmitTimeout"
    /\ UNCHANGED <<hydVars, basicVars, vfVars, liveVars, metricVars, demoVars,
                   catalogVars, serverVars>>

\* ========================================= ContactComponent: basic form
csrVars == <<csrFormData, csrErrors, isCSRSubmitting, csrSubmitSuccess, csrPending>>

BasicInit ==
    /\ formData = EmptyForm
    /\ isSubmitting = FALSE
    /\ submitSuccess = FALSE
    /\ ssrPending = 0

updateName(value) ==
    /\ formData' = [formData EXCEPT !.name = value]
    /\ lastOp' = "updateName"
    /\ UNCHANGED <<isSubmitting, submitSuccess, ssrPending>>
    /\ UNCHANGED <<hydVars, csrVars, vfVars, liveVars, metricVars, demoVars,
                   catalogVars, serverVars>>

updateEmail(value) ==
    /\ formData' = [formData EXCEPT !.email = value]
    /\ lastOp' = "updateEmail"
    /\ UNCHANGED <<isSubmitting, submitSuccess, ssrPending>>
    /\ UNCHANGED <<hydVars, csrVars, vfVars, liveVars, metricVars, demoVars,
                   catalogVars, serverVars>>

updateSubject(value) ==
    /\ formData' = [formData EXCEPT !.subject = value]
    /\ lastOp' = "updateSubject"
    /\ UNCHANGED <<isSubmitting, submitSuccess, ssrPending>>
    /\ UNCHANGED <<hydVars, csrVars, vfVars, liveVars, metricVars, demoVars,
                   catalogVars, serverVars>>

updateMessage(value) ==
    /\ formData' = [formData EXCEPT !.message = value]
    /\ lastOp' = "updateMessage"
    /\ UNCHANGED <<isSubmitting, submitSuccess, ssrPending>>
    /\ UNCHANGED <<hydVars, csrVars, vfVars, liveVars, metricVars, demoVars,
                   catalogVars, serverVars>>

updateNewsletter(value) ==
    /\ formData' = [formData EXCEPT !.newsletter = value]
    /\ lastOp' = "updateNewsletter"
    /\ UNCHANGED <<isSubmitting, submitSuccess, ssrPending>>
    /\ UNCHANGED <<hydVars, csrVars, vfVars, liveVars, metricVars, demoVars,
                   catalogVars, serverVars>>

\* Mutant of onSubmit: the browser branch schedules the callback without
\* raising isSubmitting.
onSubmitWithoutFlag ==
    /\ IF isServer
       THEN /\ submitSuccess' = TRUE
            /\ UNCHANGED <<isSubmitting, ssrPending>>
       ELSE /\ ssrPending < MaxPending
            /\ ssrPending' = ssrPending + 1
            /\ UNCHANGED <<isSubmitting, submitSuccess>>
    /\ lastOp' = "onSubmit"
    /\ UNCHANGED formData
    /\ UNCHANGED <<hydVars, csrVars, vfVars, liveVars, metricVars, demoVars,
                   catalogVars, serverVars>>

\* if (this.isServer()) submitSuccess.set(true)
\* else { isSubmitting.set(true); setTimeout(.., 2000) }
onSubmit ==
    /\ IF isServer
       THEN /\ submitSuccess' = TRUE
            /\ UNCHANGED <<isSubmitting, ssrPending>>
       ELSE /\ ssrPending < MaxPending
            /\ isSubmitting' = TRUE
            /\ ssrPending' = ssrPending + 1
            /\ UNCHANGED submitSuccess
    /\ lastOp' = "onSubmit"
    /\ UNCHANGED formData
    /\ UNCHANGED <<hydVars, csrVars, vfVars, liveVars, metricVars, demoVars,
                   catalogVars, serverVars>>

\* Mutant of submitTimeout: the callback resets the validated form instead
\* of the basic one.
submitTimeoutOnOtherSlice ==
    /\ ssrPending > 0
    /\ ssrPending' = ssrPending - 1
    /\ isSubmitting' = FALSE
    /\ submitSuccess' = TRUE
    /\ csrFormData' = EmptyForm
    /\ lastOp' = "submitTimeout"
    /\ UNCHANGED formData
    /\ UNCHANGED <<csrErrors, isCSRSubmitting, csrSubmitSuccess, csrPending>>
    /\ UNCHANGED <<hydVars, vfVars, liveVars, metricVars, demoVars,
                   catalogVars, serverVars>>

\* The callback of the setTimeout(.., 2000) in onSubmit, resetSSRForm
\* included.
submitTimeout ==
    /\ ssrPending > 0
    /\ ssrPending' = ssrPending - 1
    /\ isSubmitting' = FALSE
    /\ submitSuccess' = TRUE
    /\ formData' = EmptyForm
    /\ lastOp' = "submitTimeout"
    /\ UNCHANGED <<hydVars, csrVars, vfVars, liveVars, metricVars, demoVars,
                   catalogVars, serverVars>>

\* ============================== validateField applied to one drawn string
\* All strings over alphabet A of length at most n.
Strings(A, n) == UNION {[1..k -> A] : k \in 0..n}

VfInputs(field) ==
    CASE field = "name"    -> Strings({"J", " ", "\t"}, MaxNameLen)
      [] field = "email"   -> Strings({"a", "@", ".", " "}, MaxEmailLen)
      [] field = "subject" -> Strings({"x", " "}, MaxSubjectLen) \cup SubjectInputs
      [] field = "message" -> Strings({"m", " "}, MaxMessageLen)

\* The "required" message of each field.
RequiredMessage(field) ==
    CASE field = "name"    -> "Name is required"
      [] field = "email"   -> "Email is required"
      [] field = "subject" -> "Please select a subject"
      [] field = "message" -> "Message is required"

\* Error maps the component can hold before the call.
VfErrorMaps == {[f \in S |-> RequiredMessage(f)] : S \in SUBSET Fields}

VfInit ==
    /\ vfField \in Fields
    /\ vfValue \in VfInputs(vfField)
    /\ vfDone = FALSE
    /\ csrErrors \in VfErrorMaps

validateFieldCall ==
    /\ ~vfDone
    /\ vfDone' = TRUE
    /\ csrErrors' = validateField(csrErrors, vfField, vfValue)
    /\ UNCHANGED <<vfField, vfValue>>
    /\ UNCHANGED <<csrFormData, isCSRSubmitting, csrSubmitSuccess, csrPending, lastOp>>
    /\ UNCHANGED <<hydVars, basicVars, liveVars, metricVars, demoVars,
                   catalogVars, serverVars>>

\* ============================================ SsrDemoComponent: demo state
\* Cap on errorState.retryCount for the user-driven simulateError calls.
MaxRetry == 2

\* progress is kept in halves of a point: 200 is the code's 100.
Halves == 2

\* Samples of Math.random() * 15, which lies in [0, 15): 0, 12.5, 14.5.
LoadingSteps == {0, 25, 29}

ErrorTypes == {"network", "server", "client"}

\* Math.round of a non-negative number of halves.
Round(h) == (h + 1) \div Halves

\* The if / else-if chain that closes every tick of simulateLoading.
LoadingMessageFor(h) ==
    IF h < 30 * Halves THEN "Initializing server rendering..."
    ELSE IF h < 60 * Halves THEN "Generating static content..."
    ELSE IF h < 90 * Halves THEN "Preparing client hydration..."
    ELSE "Finalizing SSR demo..."

getErrorMessage(type) ==
    CASE type = "network" ->
           "Network connection error. Please check your internet connection."
      [] type = "server" ->
           "Server temporarily unavailable. Please try again later."
      [] type = "client" ->
           "Client-side error occurred. Refreshing the page may help."
      [] OTHER -> "An unexpected error occurred."

\* The value retryOperation and toggleErrorDemo store: no error, retryCount n.
ClearedError(n) ==
    [hasError |-> FALSE, errorMessage |-> "", errorType |-> "none",
     retryCount |-> n]

\* Mutant of simulateError: retryCount is carried over unchanged.
simulateErrorSameCount(type) ==
    [hasError |-> TRUE, errorMessage |-> getErrorMessage(type),
     errorType |-> type, retryCount |-> errorState.retryCount]

\* The value simulateError stores when the drawn type is type.
simulateError(type) ==
    [hasError |-> TRUE, errorMessage |-> getErrorMessage(type),
     errorType |-> type, retryCount |-> errorState.retryCount + 1]

\* The signals of SsrDemoComponent as their initialisers leave them.
DemoInit ==
    /\ progress = 0
    /\ isLoading = TRUE
    /\ loadingProgress = 0
    /\ loadingMessage = "Initializing SSR Demo..."
    /\ errorState = ClearedError(0)
    /\ showErrors = FALSE
    /\ errorPending = 0
    /\ retryPending = 0
    /\ renderStart = Null
    /\ clientStart = Null
    /\ serverRenderTime = 0
    /\ clientHydrationTime = 0
    /\ totalLoadTime = 0

\* SsrDemoComponent.ngOnInit: initializeComponent, simulateServerRendering,
\* setupErrorHandling.  (graphData and the chart options hold constants.)
ngOnInitDemo ==
    /\ comp = "SsrDemo"
    /\ stage = "constructed"
    /\ stage' = "inited"
    /\ hydrationPhase' = InitialPhase(isServer)
    /\ IF isServer
       THEN /\ isLoading' = FALSE
            /\ loadingProgress' = 100
            /\ loadingMessage' = "Server rendering complete"
            /\ intervals' = {}
            /\ errorPending' = errorPending
       ELSE /\ intervals' = StartedIntervals(comp)
            /\ errorPending' = errorPending + 1
            /\ UNCHANGED <<isLoading, loadingProgress, loadingMessage>>
    /\ progress' = 0
    /\ renderStart' = now
    /\ UNCHANGED <<comp, isServer, now, componentCreated, isHydrated,
                   hydrationTime, hydrationDuration, hydratePending,
                   timeSignal, activeTab, showAnimations, animPending,
                   activatePending, animationStates>>
    /\ UNCHANGED writers
    /\ UNCHANGED <<errorState, showErrors, retryPending, clientStart,
                   serverRenderTime, clientHydrationTime, totalLoadTime>>
    /\ UNCHANGED <<contactVars, basicVars, vfVars, liveVars, metricVars,
                   catalogVars, serverVars>>

\* Mutant of loadingInterval: the accumulator is not clamped to 100.
loadingIntervalUnclamped ==
    /\ "loading" \in intervals
    /\ \E step \in LoadingSteps :
         LET raw == progress + step
             done == raw >= 100 * Halves
             p == raw
         IN  /\ progress' = p
             /\ intervals' = IF done THEN intervals \ {"loading"} ELSE intervals
             /\ isLoading' = IF done THEN FALSE ELSE isLoading
             /\ loadingProgress' = Round(p)
             /\ loadingMessage' = LoadingMessageFor(p)
             /\ writers' = writers \cup
                  Wrote("loading", {"loadingProgress", "loadingMessage"} \cup
                                   (IF done THEN {"isLoading"} ELSE {}))
    /\ UNCHANGED <<comp, isServer, stage, now, componentCreated, isHydrated,
                   hydrationTime, hydrationDuration, hydrationPhase,
                   hydratePending, timeSignal, activeTab, showAnimations,
                   animPending, activatePending, animationStates>>
    /\ UNCHANGED <<errorState, showErrors, errorPending, retryPending,
                   renderStart, clientStart, serverRenderTime,
                   clientHydrationTime, totalLoadTime>>
    /\ UNCHANGED <<contactVars, basicVars, vfVars, liveVars, metricVars,
                   catalogVars, serverVars>>

\* One tick of the setInterval(.., 100) of simulateLoading.  The message
\* chain runs on every tick, the completing one included, after the branch
\* that sets 'SSR Demo ready!'.
loadingInterval ==
    /\ "loading" \in intervals
    /\ \E step \in LoadingSteps :
         LET raw == progress + step
             done == raw >= 100 * Halves
             p == IF done THEN 100 * Halves ELSE raw
         IN  /\ progress' = p
             /\ intervals' = IF done THEN intervals \ {"loading"} ELSE intervals
             /\ isLoading' = IF done THEN FALSE ELSE isLoading
             /\ loadingProgress' = Round(p)
             /\ loadingMessage' = LoadingMessageFor(p)
             /\ writers' = writers \cup
                  Wrote("loading", {"loadingProgress", "loadingMessage"} \cup
                                   (IF done THEN {"isLoading"} ELSE {}))
    /\ UNCHANGED <<comp, isServer, stage, now, componentCreated, isHydrated,
                   hydrationTime, hydrationDuration, hydrationPhase,
                   hydratePending, timeSignal, activeTab, showAnimations,
                   animPending, activatePending, animationStates>>
    /\ UNCHANGED <<errorState, showErrors, errorPending, retryPending,
                   renderStart, clientStart, serverRenderTime,
                   clientHydrationTime, totalLoadTime>>
    /\ UNCHANGED <<contactVars, basicVars, vfVars, liveVars, metricVars,
                   catalogVars, serverVars>>

\* The callback of setupErrorHandling's setTimeout(.., 2000): with
\* Math.random() > 0.8 an error of a drawn type is injected.
errorTimeout ==
    /\ errorPending > 0
    /\ errorPending' = errorPending - 1
    /\ \E inject \in BOOLEAN, type \in ErrorTypes :
         /\ errorState' = IF inject THEN simulateError(type) ELSE errorState
         /\ writers' = IF inject
                       THEN writers \cup Wrote("error", {"errorState"})
                       ELSE writers
    /\ UNCHANGED <<comp, isServer, stage, now, componentCreated, isHydrated,
                   hydrationTime, hydrationDuration, hydrationPhase,
                   hydratePending, intervals, timeSignal, activeTab,
                   showAnimations, animPending, activatePending,
                   animationStates>>
    /\ UNCHANGED <<progress, isLoading, loadingProgress, loadingMessage,
                   showErrors, retryPending, renderStart, clientStart,
                   serverRenderTime, clientHydrationTime, totalLoadTime>>
    /\ UNCHANGED <<contactVars, basicVars, vfVars, liveVars, metricVars,
                   catalogVars, serverVars>>

\* The error controls of SsrDemoComponent, available once the view is
\* attached in the browser.
DemoUserCanAct ==
    /\ comp = "SsrDemo"
    /\ ~isServer
    /\ stage = "viewInited"

\* Mutant of retryOperation: the retry count is reset as well.
retryOperationResetsCount ==
    /\ DemoUserCanAct
    /\ retryPending < MaxPending
    /\ errorState' = ClearedError(0)
    /\ retryPending' = retryPending + 1
    /\ UNCHANGED hydVars
    /\ UNCHANGED <<progress, isLoading, loadingProgress, loadingMessage,
                   showErrors, errorPending, renderStart, clientStart,
                   serverRenderTime, clientHydrationTime, totalLoadTime>>
    /\ UNCHANGED <<contactVars, basicVars, vfVars, liveVars, metricVars,
                   catalogVars, serverVars>>

retryOperation ==
    /\ DemoUserCanAct
    /\ retryPending < MaxPending
    /\ errorState' = ClearedError(errorState.retryCount)
    /\ retryPending' = retryPending + 1
    /\ UNCHANGED hydVars
    /\ UNCHANGED <<progress, isLoading, loadingProgress, loadingMessage,
                   showErrors, errorPending, renderStart, clientStart,
                   serverRenderTime, clientHydrationTime, totalLoadTime>>
    /\ UNCHANGED <<contactVars, basicVars, vfVars, liveVars, metricVars,
                   catalogVars, serverVars>>

\* The callback of retryOperation's setTimeout(.., 1000).
retryTimeout ==
    /\ retryPending > 0
    /\ retryPending' = retryPending - 1
    /\ loadingMessage' = "Operation retried successfully!"
    /\ writers' = writers \cup Wrote("retry", {"loadingMessage"})
    /\ UNCHANGED <<comp, isServer, stage, now, componentCreated, isHydrated,
                   hydrationTime, hydrationDuration, hydrationPhase,
                   hydratePending, intervals, timeSignal, activeTab,
                   showAnimations, animPending, activatePending,
                   animationStates>>
    /\ UNCHANGED <<progress, isLoading, loadingProgress, errorState,
                   showErrors, errorPending, renderStart, clientStart,
                   serverRenderTime, clientHydrationTime, totalLoadTime>>
    /\ UNCHANGED <<contactVars, basicVars, vfVars, liveVars, metricVars,
                   catalogVars, serverVars>>

toggleErrorDemo ==
    /\ DemoUserCanAct
    /\ IF showErrors
       THEN /\ showErrors' = FALSE
            /\ errorState' = ClearedError(0)
       ELSE /\ errorState.retryCount < MaxRetry
            /\ showErrors' = TRUE
            /\ \E type \in ErrorTypes : errorState' = simulateError(type)
    /\ UNCHANGED hydVars
    /\ UNCHANGED <<progress, isLoading, loadingProgress, loadingMessage,
                   errorPending, retryPending, renderStart, clientStart,
                   serverRenderTime, clientHydrationTime, totalLoadTime>>
    /\ UNCHANGED <<contactVars, basicVars, vfVars, liveVars, metricVars,
                   catalogVars, serverVars>>

\* The callback of simulateServerRendering's setTimeout(.., 300), on the
\* server and in the browser: the render time, activateAnimations() called
\* in place, and in the browser simulateClientHydration().
serverRenderTimeout ==
    /\ renderStart # Null
    /\ renderStart' = Null
    /\ serverRenderTime' = now - renderStart
    /\ animationStates' = SetActive(animationStates, FALSE)
    /\ activatePending' = activatePending + 1
    /\ clientStart' = IF isServer THEN clientStart ELSE now
    /\ writers' = writers \cup
                  Wrote("serverRender", {"serverRenderTime", "animationStates"})
    /\ UNCHANGED <<comp, isServer, stage, now, componentCreated, isHydrated,
                   hydrationTime, hydrationDuration, hydrationPhase,
                   hydratePending, intervals, timeSignal, activeTab,
                   showAnimations, animPending>>
    /\ UNCHANGED <<progress, isLoading, loadingProgress, loadingMessage,
                   errorState, showErrors, errorPending, retryPending,
                   clientHydrationTime, totalLoadTime>>
    /\ UNCHANGED <<contactVars, basicVars, vfVars, liveVars, metricVars,
                   catalogVars, serverVars>>

\* The callback of simulateClientHydration's setTimeout(.., 500).
clientHydrationTimeout ==
    /\ clientStart # Null
    /\ clientStart' = Null
    /\ clientHydrationTime' = now - clientStart
    /\ totalLoadTime' = serverRenderTime + (now - clientStart)
    /\ writers' = writers \cup
                  Wrote("clientHydration", {"clientHydrationTime", "totalLoadTime"})
    /\ UNCHANGED <<comp, isServer, stage, now, componentCreated, isHydrated,
                   hydrationTime, hydrationDuration, hydrationPhase,
                   hydratePending, intervals, timeSignal, activeTab,
                   showAnimations, animPending, activatePending,
                   animationStates>>
    /\ UNCHANGED <<progress, isLoading, loadingProgress, loadingMessage,
                   errorState, showErrors, errorPending, retryPending,
                   renderStart, serverRenderTime>>
    /\ UNCHANGED <<contactVars, basicVars, vfVars, liveVars, metricVars,
                   catalogVars, serverVars>>

\* ================================== ProductsComponent: the catalog's view
\* Names are sequences of characters, prices are in cents, ratings in tenths.
LowerCase ==
    <<"a", "b", "c", "d", "e", "f", "g", "h", "i", "j", "k", "l",
        "m", "n", "o", "p", "q", "r", "s", "t", "u", "v", "w", "x", "y",
        "z">>
UpperCase ==
    <<"A", "B", "C", "D", "E", "F", "G", "H", "I", "J", "K", "L",
        "M", "N", "O", "P", "Q", "R", "S", "T", "U", "V", "W", "X", "Y",
        "Z">>

\* The products loadProducts stores, in their stored order (the fields the
\* getter reads).
mockProducts ==
    <<
       [id |-> 1,
        name |-> <<"A", "n", "g", "u", "l", "a", "r", " ", "S", "S",
                   "R", " ", "G", "u", "i", "d", "e">>,
        price |-> 2999, category |-> "books", inStock |-> TRUE, rating |-> 48],
       [id |-> 2,
        name |-> <<"S", "S", "R", " ", "P", "e", "r", "f", "o", "r",
                   "m", "a", "n", "c", "e", " ", "M", "o", "n", "i",
                   "t", "o", "r">>,
        price |-> 9999, category |-> "electronics", inStock |-> TRUE, rating |-> 49],
       [id |-> 3,
        name |-> <<"H", "y", "d", "r", "a", "t", "i", "o", "n", " ",
                   "T", "-", "S", "h", "i", "r", "t">>,
        price |-> 2499, category |-> "clothing", inStock |-> FALSE, rating |-> 46],
       [id |-> 4,
        name |-> <<"S", "E", "O", " ", "O", "p", "t", "i", "m", "i",
                   "z", "e", "r", " ", "P", "r", "o">>,
        price |-> 14999, category |-> "electronics", inStock |-> FALSE, rating |-> 47],
       [id |-> 5,
        name |-> <<"S", "e", "r", "v", "e", "r", "-", "S", "i", "d",
                   "e", " ", "H", "o", "o", "d", "i", "e">>,
        price |-> 3999, category |-> "clothing", inStock |-> TRUE, rating |-> 45],
       [id |-> 6,
        name |-> <<"A", "n", "g", "u", "l", "a", "r", " ", "B", "e",
                   "s", "t", " ", "P", "r", "a", "c", "t", "i", "c",
                   "e", "s">>,
        price |-> 1999, category |-> "books", inStock |-> FALSE, rating |-> 44]
    >>

\* Arguments of filterByCategory: the four categories of the component and a
\* string that is none of them.
CategoryInputs == {"all", "electronics", "clothing", "books", "toys"}
SortKeys == {"name", "price", "rating"}

IndexIn(s, x) == CHOOSE i \in DOMAIN s : s[i] = x
IsUpper(ch) == \E i \in DOMAIN UpperCase : UpperCase[i] = ch
IsLower(ch) == \E i \in DOMAIN LowerCase : LowerCase[i] = ch

\* String.prototype.localeCompare with the default collation: letters are
\* compared without case first (white space before punctuation before
\* letters); among strings that are equal so far lower case sorts first.
PrimaryWeight(ch) ==
    IF ch = " " THEN 1
    ELSE IF ch = "-" THEN 2
    ELSE IF IsLower(ch) THEN 2 + IndexIn(LowerCase, ch)
    ELSE 2 + IndexIn(UpperCase, ch)

TertiaryWeight(ch) == IF IsUpper(ch) THEN 1 ELSE 0

RECURSIVE CompareWeights(_, _)
CompareWeights(a, b) ==
    IF a = <<>> /\ b = <<>> THEN 0
    ELSE IF a = <<>> THEN -1
    ELSE IF b = <<>> THEN 1
    ELSE IF Head(a) < Head(b) THEN -1
    ELSE IF Head(a) > Head(b) THEN 1
    ELSE CompareWeights(Tail(a), Tail(b))

localeCompare(a, b) ==
    LET primary == CompareWeights([i \in DOMAIN a |-> PrimaryWeight(a[i])],
                                  [i \in DOMAIN b |-> PrimaryWeight(b[i])])
    IN  IF primary # 0 THEN primary
        ELSE CompareWeights([i \in DOMAIN a |-> TertiaryWeight(a[i])],
                            [i \in DOMAIN b |-> TertiaryWeight(b[i])])

\* x || 0
OrZero(x) == IF x = Null THEN 0 ELSE x

\* Mutant of compare: the rating operands exchanged (ascending).
compareRatingAscending(a, b) ==
    CASE sortBy = "price"  -> a.price - b.price
      [] sortBy = "rating" -> OrZero(a.rating) - OrZero(b.rating)
      [] OTHER             -> localeCompare(a.name, b.name)

\* The comparator handed to sort.
compare(a, b) ==
    CASE sortBy = "price"  -> a.price - b.price
      [] sortBy = "rating" -> OrZero(b.rating) - OrZero(a.rating)
      [] OTHER             -> localeCompare(a.name, b.name)

\* Array.prototype.sort is stable: x goes behind the last element that does
\* not sort after it.
insert(t, x) ==
    LET before == {i \in DOMAIN t : compare(t[i], x) <= 0}
        pos == IF before = {} THEN 0
               ELSE CHOOSE i \in before : \A j \in before : j <= i
    IN  SubSeq(t, 1, pos) \o <<x>> \o SubSeq(t, pos + 1, Len(t))

RECURSIVE sort(_)
sort(s) ==
    IF s = <<>> THEN <<>>
    ELSE insert(sort(SubSeq(s, 1, Len(s) - 1)), s[Len(s)])

\* The value the getter returns: category filter, stock filter, then a
\* sorted copy.
filteredAndSortedProducts ==
    LET byCategory(p) == p.category = selectedCategory
        inStockOnly(p) == p.inStock
        filtered1 == IF selectedCategory # "all"
                     THEN SelectSeq(productList, byCategory) ELSE productList
        filtered2 == IF showOnlyInStock
                     THEN SelectSeq(filtered1, inStockOnly) ELSE filtered1
    IN  sort(filtered2)

\* products() is the empty array until loadProducts has stored the catalog.
CatalogInit ==
    /\ productList \in {<<>>, mockProducts}
    /\ selectedCategory = "all"
    /\ sortBy = "name"
    /\ showOnlyInStock = FALSE
    /\ shown = <<>>

CatalogIdle ==
    /\ productList = <<>>
    /\ selectedCategory = "all"
    /\ sortBy = "name"
    /\ showOnlyInStock = FALSE
    /\ shown = <<>>

filterByCategory(category) ==
    /\ selectedCategory' = category
    /\ UNCHANGED <<productList, sortBy, showOnlyInStock, shown>>
    /\ UNCHANGED <<hydVars, contactVars, basicVars, vfVars, liveVars,
                   metricVars, demoVars, serverVars>>

setSortBy(key) ==
    /\ sortBy' = key
    /\ UNCHANGED <<productList, selectedCategory, showOnlyInStock, shown>>
    /\ UNCHANGED <<hydVars, contactVars, basicVars, vfVars, liveVars,
                   metricVars, demoVars, serverVars>>

toggleStockFilter ==
    /\ showOnlyInStock' = ~showOnlyInStock
    /\ UNCHANGED <<productList, selectedCategory, sortBy, shown>>
    /\ UNCHANGED <<hydVars, contactVars, basicVars, vfVars, liveVars,
                   metricVars, demoVars, serverVars>>

\* One evaluation of the getter by the template; shown is what it returned.
readFilteredAndSortedProducts ==
    /\ shown' = filteredAndSortedProducts
    /\ UNCHANGED <<productList, selectedCategory, sortBy, showOnlyInStock>>
    /\ UNCHANGED <<hydVars, contactVars, basicVars, vfVars, liveVars,
                   metricVars, demoVars, serverVars>>

\* ============================================ the Angular SSR middleware
\* Requests the server handles at the same time.
MaxRequests == 3
Requests == 1..MaxRequests

\* What angularApp.handle(req) settles with: a Response, null, or an error.
EngineOutcomes == {"response", "null", "error"}

\* What writeResponseToNodeResponse (an async function of @angular/ssr/node)
\* does: it writes the response, it throws before its promise exists, or
\* its promise rejects.
WriteOutcomes == {"written", "throws", "rejects"}

\* A request no middleware has seen yet.
NewRequest ==
    [phase |-> "new", engine |-> "pending", write |-> "notCalled",
     written |-> FALSE, nextCalls |-> <<>>]

ServerInit == requests = [r \in Requests |-> NewRequest]

\* The middleware function: angularApp.handle(req) is started and the two
\* callbacks are attached to its promise.
ssrMiddleware(r) ==
    /\ requests[r].phase = "new"
    /\ requests' = [requests EXCEPT ![r].phase = "handling"]
    /\ UNCHANGED <<hydVars, contactVars, basicVars, vfVars, liveVars,
                   metricVars, demoVars, catalogVars>>

\* The rendering engine settles the promise of handle(req).
handleSettles(r) ==
    /\ requests[r].phase = "handling"
    /\ \E outcome \in EngineOutcomes :
         requests' = [requests EXCEPT
                        ![r].engine = outcome,
                        ![r].phase = IF outcome = "error"
                                     THEN "catchQueued" ELSE "thenQueued"]
    /\ UNCHANGED <<hydVars, contactVars, basicVars, vfVars, liveVars,
                   metricVars, demoVars, catalogVars>>

\* The .then callback.  Its body is a statement block: the promise that
\* writeResponseToNodeResponse returns is dropped, so only an exception
\* thrown inside the callback rejects the promise .catch is attached to.
thenCallback(r) ==
    /\ requests[r].phase = "thenQueued"
    /\ IF requests[r].engine = "response"
       THEN \E outcome \in WriteOutcomes :
              requests' = [requests EXCEPT
                             ![r].write = outcome,
                             ![r].written = (outcome = "written"),
                             ![r].phase = IF outcome = "throws"
                                          THEN "catchQueued" ELSE "done"]
       ELSE requests' = [requests EXCEPT
                           ![r].nextCalls = Append(@, "noError"),
                           ![r].phase = "done"]
    /\ UNCHANGED <<hydVars, contactVars, basicVars, vfVars, liveVars,
                   metricVars, demoVars, catalogVars>>

\* The .catch callback: next(error).
catchCallback(r) ==
    /\ requests[r].phase = "catchQueued"
    /\ requests' = [requests EXCEPT
                      ![r].nextCalls = Append(@, "error"),
                      ![r].phase = "done"]
    /\ UNCHANGED <<hydVars, contactVars, basicVars, vfVars, liveVars,
                   metricVars, demoVars, catalogVars>>

\* ========================================================= specifications
\* Values of the variables a specification does not use.
HydrationIdle ==
    /\ comp = "Contact"
    /\ isServer = FALSE
    /\ stage = "viewInited"
    /\ now = 0
    /\ componentCreated = 0
    /\ isHydrated = FALSE
    /\ hydrationTime = Null
    /\ hydrationDuration = Null
    /\ hydrationPhase = "server"
    /\ hydratePending = 0
    /\ intervals = {}
    /\ timeSignal = 0
    /\ activeTab = "graphs"
    /\ showAnimations = TRUE
    /\ animPending = 0
    /\ activatePending = 0
    /\ animationStates = InitialAnimations
    /\ writers = {}

\* The live-data signals as their initialisers leave them.
LiveIdle ==
    /\ loading = TRUE
    /\ loadPending = 0
    /\ refreshPending = 0
    /\ reports = {}
    /\ products = {}
    /\ realTimeData = <<>>
    /\ dataUpdateCount = 0
    /\ dataStreamRate = 0
    /\ updateCount = 0
    /\ realTimeStatus = "Inactive"
    /\ connectionStatus = "Connected"
    /\ liveMetrics = <<>>
    /\ liveData = <<>>
    /\ cartCount = 0
    /\ wishlistCount = 0

MetricIdle ==
    /\ mDeltas = <<>>
    /\ mDone = TRUE

VfIdle ==
    /\ vfField = "name"
    /\ vfValue = <<>>
    /\ vfDone = TRUE

\* -- the hydration tracker of one page component
HydrationSpecInit ==
    HydrationInit /\ ContactInit /\ BasicInit /\ VfIdle /\ LiveIdle /\ MetricIdle
    /\ DemoInit
    /\ CatalogIdle
    /\ ServerInit
HydrationNext ==
    \/ Tick
    \/ ngOnInit
    \/ ngAfterViewInit
    \/ ngOnDestroy
    \/ markAsHydrated
    \/ clockInterval
    \/ \E tab \in Tabs : setActiveTab(tab)
    \/ toggleAnimations
    \/ activateAnimations
    \/ activationTimeout
HydrationSpec == HydrationSpecInit /\ [][HydrationNext]_vars
\* Timer callbacks that are due are run by the event loop.
HydrationFairSpec == HydrationSpec /\ WF_vars(markAsHydrated)

\* -- the validated form of ContactComponent
ContactSpecInit ==
    HydrationIdle /\ ContactInit /\ BasicInit /\ VfIdle /\ LiveIdle /\ MetricIdle
    /\ DemoInit
    /\ CatalogIdle
    /\ ServerInit
ContactNext ==
    \/ \E v \in NameInputs : updateCSRName(v)
    \/ \E v \in EmailInputs : updateCSREmail(v)
    \/ \E v \in SubjectInputs : updateCSRSubject(v)
    \/ \E v \in MessageInputs : updateCSRMessage(v)
    \/ \E b \in BOOLEAN : updateCSRNewsletter(b)
    \/ onCSRSubmit
    \/ csrSubmitTimeout
ContactSpec == ContactSpecInit /\ [][ContactNext]_vars
ContactFairSpec == ContactSpec /\ WF_vars(csrSubmitTimeout)

\* -- validateField on one input
VfSpecInit ==
    /\ HydrationIdle
    /\ VfInit
    /\ csrFormData = EmptyForm
    /\ isCSRSubmitting = FALSE
    /\ csrSubmitSuccess = FALSE
    /\ csrPending = 0
    /\ lastOp = "constructor"
    /\ BasicInit
    /\ LiveIdle
    /\ MetricIdle
    /\ DemoInit
    /\ CatalogIdle
    /\ ServerInit
VfNext == validateFieldCall
VfSpec == VfSpecInit /\ [][VfNext]_vars

\* -- the basic form of ContactComponent, rendered on the server or in the
\*    browser
ContactInstance ==
    /\ comp = "Contact"
    /\ isServer \in BOOLEAN
    /\ stage = "viewInited"
    /\ now = 0
    /\ componentCreated = 0
    /\ isHydrated = FALSE
    /\ hydrationTime = Null
    /\ hydrationDuration = Null
    /\ hydrationPhase = "server"
    /\ hydratePending = 0
    /\ intervals = {}
    /\ timeSignal = 0
    /\ activeTab = "graphs"
    /\ showAnimations = TRUE
    /\ animPending = 0
    /\ activatePending = 0
    /\ animationStates = InitialAnimations
    /\ writers = {}

BasicFormSpecInit ==
    ContactInstance /\ ContactInit /\ BasicInit /\ VfIdle /\ LiveIdle /\ MetricIdle
    /\ DemoInit
    /\ CatalogIdle
    /\ ServerInit
BasicFormNext ==
    \/ \E v \in NameInputs : updateName(v)
    \/ \E v \in EmailInputs : updateEmail(v)
    \/ \E v \in SubjectInputs : updateSubject(v)
    \/ \E v \in MessageInputs : updateMessage(v)
    \/ \E b \in BOOLEAN : updateNewsletter(b)
    \/ onSubmit
    \/ submitTimeout
BasicFormSpec == BasicFormSpecInit /\ [][BasicFormNext]_vars
BasicFormFairSpec == BasicFormSpec /\ WF_vars(submitTimeout)

\* -- both forms of one ContactComponent, their handlers interleaved
DualNameInputs == {<<"J", "o">>}
DualEmailInputs == {<<"a", "@", "b", ".", "c", "o">>}
DualSubjectInputs == {<<"G", "e", "n", "e", "r", "a", "l">>}
DualMessageInputs == {<<"H", "e", "l", "l", "o", " ", "t", "h", "e", "r", "e", "!">>}

DualFormSpecInit ==
    ContactInstance /\ ContactInit /\ BasicInit /\ VfIdle /\ LiveIdle /\ MetricIdle
    /\ DemoInit
    /\ CatalogIdle
    /\ ServerInit
DualFormNext ==
    \/ \E v \in DualNameInputs : updateName(v)
    \/ \E v \in DualEmailInputs : updateEmail(v)
    \/ \E v \in DualSubjectInputs : updateSubject(v)
    \/ \E v \in DualMessageInputs : updateMessage(v)
    \/ updateNewsletter(TRUE)
    \/ onSubmit
    \/ submitTimeout
    \/ \E v \in DualNameInputs : updateCSRName(v)
    \/ \E v \in DualEmailInputs : updateCSREmail(v)
    \/ \E v \in DualSubjectInputs : updateCSRSubject(v)
    \/ \E v \in DualMessageInputs : updateCSRMessage(v)
    \/ updateCSRNewsletter(TRUE)
    \/ onCSRSubmit
    \/ csrSubmitTimeout
DualFormSpec == DualFormSpecInit /\ [][DualFormNext]_vars

\* -- the live data of one HomeComponent, ProductsComponent or
\*    ReportsComponent instance
LiveSpecInit ==
    /\ HydrationInit /\ LiveInit /\ ContactInit /\ BasicInit /\ VfIdle /\ MetricIdle
    /\ DemoInit
    /\ CatalogIdle
    /\ ServerInit
\* Date.now() is left where the constructor found it: no live-data signal
\* depends on it, and writers records every write of the clock signals.
LiveNext ==
    \/ ngOnInitLive
    \/ ngAfterViewInit
    \/ ngOnDestroy
    \/ markAsHydrated
    \/ clockInterval
    \/ loadTimeout
    \/ refreshData
    \/ refreshTimeout
    \/ dashboardInterval
    \/ streamInterval
    \/ connectionInterval
    \/ liveDataInterval
    \/ userActivityInterval
LiveSpec == LiveSpecInit /\ [][LiveNext]_vars

\* -- updateLiveMetrics on one list
MetricSpecInit ==
    /\ HydrationIdle
    /\ ContactInit
    /\ BasicInit
    /\ VfIdle
    /\ MetricInit
    /\ loading = FALSE
    /\ loadPending = 0
    /\ refreshPending = 0
    /\ reports = ReportIds
    /\ products = {}
    /\ realTimeData = <<>>
    /\ dataUpdateCount = 0
    /\ dataStreamRate = 0
    /\ updateCount = 0
    /\ realTimeStatus = "Inactive"
    /\ connectionStatus = "Connected"
    /\ liveData = <<>>
    /\ cartCount = 0
    /\ wishlistCount = 0
    /\ DemoInit
    /\ CatalogIdle
    /\ ServerInit
MetricNext == updateLiveMetricsCall
MetricSpec == MetricSpecInit /\ [][MetricNext]_vars

\* -- SsrDemoComponent: the loading bar and the error fallback
DemoSpecInit ==
    /\ HydrationInit
    /\ comp = "SsrDemo"
    /\ DemoInit
    /\ CatalogIdle
    /\ ServerInit
    /\ ContactInit
    /\ BasicInit
    /\ VfIdle
    /\ LiveIdle
    /\ MetricIdle
DemoNext ==
    \/ ngOnInitDemo
    \/ ngAfterViewInit
    \/ ngOnDestroy
    \/ markAsHydrated
    \/ loadingInterval
    \/ errorTimeout
    \/ retryOperation
    \/ retryTimeout
    \/ toggleErrorDemo
DemoSpec == DemoSpecInit /\ [][DemoNext]_vars

\* -- SsrDemoComponent: the animation flags and the timing demo
AnimationNext ==
    \/ Tick
    \/ ngOnInitDemo
    \/ ngAfterViewInit
    \/ ngOnDestroy
    \/ markAsHydrated
    \/ serverRenderTimeout
    \/ clientHydrationTimeout
    \/ \E tab \in Tabs : setActiveTab(tab)
    \/ toggleAnimations
    \/ activateAnimations
    \/ activationTimeout
AnimationSpec == DemoSpecInit /\ [][AnimationNext]_vars

\* -- ProductsComponent: the filtered and sorted view of the catalog
CatalogSpecInit ==
    /\ HydrationIdle
    /\ ContactInit
    /\ BasicInit
    /\ VfIdle
    /\ LiveIdle
    /\ MetricIdle
    /\ DemoInit
    /\ CatalogInit
    /\ ServerInit
CatalogNext ==
    \/ \E category \in CategoryInputs : filterByCategory(category)
    \/ \E key \in SortKeys : setSortBy(key)
    \/ toggleStockFilter
    \/ readFilteredAndSortedProducts
CatalogSpec == CatalogSpecInit /\ [][CatalogNext]_vars

\* -- the Express server: requests passing through the SSR middleware
ServerSpecInit ==
    /\ HydrationIdle
    /\ ContactInit
    /\ BasicInit
    /\ VfIdle
    /\ LiveIdle
    /\ MetricIdle
    /\ DemoInit
    /\ CatalogIdle
    /\ ServerInit
ServerNext ==
    \E r \in Requests :
        \/ ssrMiddleware(r)
        \/ handleSettles(r)
        \/ thenCallback(r)
        \/ catchCallback(r)
ServerSpec == ServerSpecInit /\ [][ServerNext]_vars

Spec == HydrationSpec

\* ================================================================= claims
\* ---- vocabulary of the claims, stated without the model's operators
PhaseRank(p) ==
    CASE p = "server" -> 0 [] p = "loading" -> 1 [] p = "hydrated" -> 2

\* Positions of the characters of s that are not white space.
InkPositions(s) == {i \in 1..Len(s) : s[i] \notin WhiteSpace}

\* Length of s without its leading and trailing white space.
TrimmedLength(s) ==
    IF InkPositions(s) = {} THEN 0
    ELSE LET first == CHOOSE i \in InkPositions(s) : \A j \in InkPositions(s) : i <= j
             last == CHOOSE i \in InkPositions(s) : \A j \in InkPositions(s) : i >= j
         IN last - first + 1

\* s is  local '@' domain '.' tld  with all three parts non-empty and made of
\* characters that are neither white space nor '@'.
MatchesEmailShape(s) ==
    \E i, j \in 1..Len(s) :
        /\ 1 < i /\ i + 1 < j /\ j < Len(s)
        /\ s[i] = "@"
        /\ s[j] = "."
        /\ \A k \in (1..Len(s)) \ {i} : s[k] \notin WhiteSpace /\ s[k] # "@"

\* The enumerated subjects the form offers.
SubjectOptions == {<<"G", "e", "n", "e", "r", "a", "l">>}

RuleFails(field, value) ==
    CASE field = "name"    -> TrimmedLength(value) < 2
      [] field = "email"   -> ~MatchesEmailShape(value)
      [] field = "subject" -> value = <<>>
      [] field = "message" -> TrimmedLength(value) < 10

AnyRuleFails(data) == \E f \in Fields : RuleFails(f, data[f])

\* The entry of field f in error map m (NoError when absent).
Entry(m, f) == IF f \in DOMAIN m THEN m[f] ELSE NoError

HydrationDone ==
    /\ isHydrated = TRUE
    /\ hydrationTime = now
    /\ hydrationDuration = now - componentCreated
    /\ hydrationPhase = "hydrated"

\* C1 (HydrationSpec): hydrationPhase only moves forward, one step at a time,
\* in the order server -> loading -> hydrated, whatever lifecycle hook, user
\* action or timer callback runs: it never goes back to 'server' once
\* 'loading', and never changes once 'hydrated'.
C1_PhaseOnlyAdvances ==
    [][/\ hydrationPhase' # hydrationPhase =>
            PhaseRank(hydrationPhase') = PhaseRank(hydrationPhase) + 1
       /\ hydrationPhase = "hydrated" => hydrationPhase' = "hydrated"]_vars

C1_Witness ==
    /\ hydrationPhase = "hydrated"
    /\ stage = "destroyed"
    /\ timeSignal = now
    /\ now > componentCreated

\* C5 (HydrationSpec): on the server ngAfterViewInit schedules no hydration
\* callback, so hydrationPhase stays 'server', isHydrated stays false and
\* hydrationTime and hydrationDuration stay null for the whole life of the
\* component.
C5_ServerNeverHydrates ==
    isServer =>
        /\ hydratePending = 0
        /\ hydrationPhase = "server"
        /\ isHydrated = FALSE
        /\ hydrationTime = Null
        /\ hydrationDuration = Null

C5_Witness == isServer /\ stage = "destroyed" /\ now > componentCreated

\* C4 (HydrationFairSpec): in the browser, once ngAfterViewInit has run the
\* hydration callback eventually fires, and the step in which it fires sets
\* isHydrated = true, hydrationTime = now, hydrationDuration = now -
\* componentCreated and hydrationPhase = 'hydrated' together; no other step
\* writes isHydrated, hydrationTime or hydrationDuration.
C4_HydrationCallback ==
    /\ [][(\/ hydratePending' < hydratePending
           \/ isHydrated' # isHydrated
           \/ hydrationTime' # hydrationTime
           \/ hydrationDuration' # hydrationDuration)
          => (now' = now /\ componentCreated' = componentCreated /\ HydrationDone')]_vars
    /\ (~isServer /\ stage = "viewInited") ~> isHydrated

C4_Witness ==
    /\ isHydrated
    /\ componentCreated = 1
    /\ hydrationTime = 3
    /\ hydrationDuration = 2

SubmitOps == {"onCSRSubmit:rejected", "onCSRSubmit:scheduled"}

\* C2 (ContactSpec), as claimed: an onCSRSubmit call made while some field
\* fails its rule leaves csrSubmitSuccess equal to false, leaves csrFormData
\* unchanged, does not set isCSRSubmitting and schedules no callback.
C2_InvalidSubmitLeavesSuccessFalse ==
    [][(lastOp' \in SubmitOps /\ AnyRuleFails(csrFormData))
       => /\ csrSubmitSuccess' = FALSE
          /\ csrFormData' = csrFormData
          /\ isCSRSubmitting' = isCSRSubmitting
          /\ csrPending' = csrPending]_vars

\* C3 (ContactFairSpec): an onCSRSubmit call made while all four fields pass
\* their rules sets isCSRSubmitting and schedules the completion callback;
\* the step in which a completion callback fires sets csrSubmitSuccess,
\* clears isCSRSubmitting, resets the five form fields and empties the error
\* map; and a scheduled callback eventually fires.
SubmissionCompleted ==
    /\ csrSubmitSuccess = TRUE
    /\ isCSRSubmitting = FALSE
    /\ csrFormData.name = <<>>
    /\ csrFormData.email = <<>>
    /\ csrFormData.subject = <<>>
    /\ csrFormData.message = <<>>
    /\ csrFormData.newsletter = FALSE
    /\ DOMAIN csrErrors = {}

C3_ValidSubmitCompletes ==
    /\ [][(lastOp' \in SubmitOps /\ ~AnyRuleFails(csrFormData))
          => (isCSRSubmitting' = TRUE /\ csrPending' = csrPending + 1)]_vars
    /\ [][csrPending' < csrPending => SubmissionCompleted']_vars
    /\ (csrPending > 0) ~> SubmissionCompleted

C3_Witness ==
    /\ lastOp = "csrSubmitTimeout"
    /\ SubmissionCompleted
    /\ csrPending = 0

\* C10 (ContactSpec): each of updateCSRName, updateCSREmail, updateCSRSubject
\* and updateCSRMessage stores the new value in csrFormData and re-runs that
\* field's rule only: afterwards the error map has an entry for the field
\* iff the new value fails the rule, and the entries of the other three
\* fields, like the other form fields, are what they were before the call.
SetterEffect(field, value) ==
    /\ csrFormData'[field] = value
    /\ \A g \in (DOMAIN csrFormData) \ {field} : csrFormData'[g] = csrFormData[g]
    /\ field \in DOMAIN csrErrors' <=> RuleFails(field, value)
    /\ \A g \in Fields \ {field} : Entry(csrErrors', g) = Entry(csrErrors, g)

C10_SetterRevalidatesOwnField ==
    [][/\ \A v \in NameInputs : updateCSRName(v) => SetterEffect("name", v)
       /\ \A v \in EmailInputs : updateCSREmail(v) => SetterEffect("email", v)
       /\ \A v \in SubjectInputs : updateCSRSubject(v) => SetterEffect("subject", v)
       /\ \A v \in MessageInputs : updateCSRMessage(v) => SetterEffect("message", v)]_vars

C10_Witness ==
    /\ lastOp = "updateCSRName"
    /\ "name" \notin DOMAIN csrErrors
    /\ Entry(csrErrors, "email") = "Please enter a valid email address"
    /\ Entry(csrErrors, "message") = "Message is required"

\* C6 (VfSpec): for every string value, after validateField('name', value)
\* the error map has an entry for 'name' iff the trimmed length of value is
\* less than 2.
C6_NameRule ==
    (vfDone /\ vfField = "name") =>
        ("name" \in DOMAIN csrErrors <=> TrimmedLength(vfValue) < 2)

C6_Witness ==
    /\ vfDone /\ vfField = "name"
    /\ Len(vfValue) = 3 /\ TrimmedLength(vfValue) = 1
    /\ "name" \in DOMAIN csrErrors

\* C7 (VfSpec): for every string value, after validateField('email', value)
\* the error map has an entry for 'email' iff the untrimmed value does not
\* have the shape  local@domain.tld  of ^[^\s@]+@[^\s@]+\.[^\s@]+$ .
C7_EmailRule ==
    (vfDone /\ vfField = "email") =>
        ("email" \in DOMAIN csrErrors <=> ~MatchesEmailShape(vfValue))

C7_Witness ==
    /\ vfDone /\ vfField = "email"
    /\ vfValue = <<"a", "@", ".", ".", "a">>
    /\ "email" \notin DOMAIN csrErrors

\* C8 (VfSpec): for every string value, after validateField('message',
\* value) the error map has an entry for 'message' iff the trimmed length of
\* value is less than 10.
C8_MessageRule ==
    (vfDone /\ vfField = "message") =>
        ("message" \in DOMAIN csrErrors <=> TrimmedLength(vfValue) < 10)

C8_Witness ==
    /\ vfDone /\ vfField = "message"
    /\ Len(vfValue) = 11 /\ TrimmedLength(vfValue) = 10
    /\ "message" \notin DOMAIN csrErrors

\* C9 (VfSpec), as claimed: validateField('subject', value) accepts value
\* exactly when it is non-empty and one of the enumerated subjects.
C9_SubjectMustBeEnumerated ==
    (vfDone /\ vfField = "subject") =>
        ("subject" \notin DOMAIN csrErrors
            <=> (vfValue # <<>> /\ vfValue \in SubjectOptions))

\* C9 (VfSpec), amended: validateField('subject', value) accepts value
\* exactly when it is not the empty string, whether or not it is one of the
\* enumerated subjects; only the empty string leaves an entry for 'subject'.
C9_SubjectNonEmpty ==
    (vfDone /\ vfField = "subject") =>
        ("subject" \notin DOMAIN csrErrors <=> Len(vfValue) > 0)

C9_Witness ==
    /\ vfDone /\ vfField = "subject"
    /\ vfValue = <<" ">>
    /\ "subject" \notin DOMAIN csrErrors

\* C11 (ContactSpec): onCSRSubmit validates all four fields of the current
\* csrFormData before it decides: it returns without submitting exactly when
\* some field fails its rule, and then the error map has an entry for
\* exactly the fields whose current value fails, edited or not.
C11_SubmitRevalidatesAllFields ==
    /\ lastOp = "onCSRSubmit:rejected" =>
           /\ AnyRuleFails(csrFormData)
           /\ \A f \in Fields : f \in DOMAIN csrErrors <=> RuleFails(f, csrFormData[f])
    /\ lastOp = "onCSRSubmit:scheduled" =>
           /\ ~AnyRuleFails(csrFormData)
           /\ DOMAIN csrErrors = {}

C11_Witness ==
    /\ lastOp = "onCSRSubmit:rejected"
    /\ csrFormData.name = <<"J">>
    /\ csrFormData.email = <<"b", "a", "d">>
    /\ csrFormData.subject = <<>>
    /\ csrFormData.message = <<"s", "h", "o", "r", "t">>
    /\ DOMAIN csrErrors = Fields

\* C14 (HydrationSpec), as claimed: once the view is destroyed no timer
\* callback of the instance runs: no pending callback is consumed and no
\* signal of the instance changes any more.
C14_NoCallbackAfterDestroy ==
    [][stage = "destroyed" =>
          UNCHANGED <<isHydrated, hydrationTime, hydrationDuration,
                      hydrationPhase, timeSignal, animationStates,
                      hydratePending, animPending, activatePending>>]_vars

\* C20 (HydrationSpec): markAsHydrated runs at most once per instance (no
\* callback is pending once the instance is hydrated), and hydrationTime and
\* hydrationDuration, once non-null, keep their value in every later state.
C20_HydratedOnce ==
    [][/\ hydrationTime # Null => hydrationTime' = hydrationTime
       /\ hydrationDuration # Null => hydrationDuration' = hydrationDuration
       /\ isHydrated' => hydratePending' = 0]_vars

C20_Witness ==
    /\ isHydrated
    /\ hydrationTime # Null
    /\ hydrationDuration # Null
    /\ now > hydrationTime
    /\ timeSignal > hydrationTime

BasicOps ==
    {"updateName", "updateEmail", "updateSubject", "updateMessage",
     "updateNewsletter", "onSubmit", "submitTimeout"}
CsrOps ==
    {"updateCSRName", "updateCSREmail", "updateCSRSubject", "updateCSRMessage",
     "updateCSRNewsletter", "onCSRSubmit:rejected", "onCSRSubmit:scheduled",
     "csrSubmitTimeout"}

\* C12 (DualFormSpec): under every interleaving of the handlers of both
\* forms, a step of a basic-form handler (a setter, onSubmit or its delayed
\* completion) leaves csrFormData, csrErrors, isCSRSubmitting and
\* csrSubmitSuccess unchanged, and a step of a validated-form handler (a
\* setter with its validateField call, onCSRSubmit or its delayed
\* completion) leaves formData, isSubmitting and submitSuccess unchanged.
C12_SlicesIndependent ==
    [][/\ lastOp' \in BasicOps =>
            UNCHANGED <<csrFormData, csrErrors, isCSRSubmitting, csrSubmitSuccess>>
       /\ lastOp' \in CsrOps =>
            UNCHANGED <<formData, isSubmitting, submitSuccess>>]_vars

C12_Witness ==
    /\ lastOp = "submitTimeout"
    /\ formData = EmptyForm
    /\ submitSuccess
    /\ csrFormData.name = <<"J", "o">>
    /\ isCSRSubmitting
    /\ csrPending = 1
    /\ ~csrSubmitSuccess

\* C13 (BasicFormFairSpec), as claimed: every call of onSubmit sets
\* isSubmitting to true and schedules the completion callback.
C13_EverySubmitSetsSubmitting ==
    [][onSubmit => (isSubmitting' = TRUE /\ ssrPending' = ssrPending + 1)]_vars

\* C13 (BasicFormFairSpec), amended: in the browser every call of onSubmit,
\* whatever the form holds, sets isSubmitting to true and schedules the
\* completion callback, which eventually fires and in that step sets
\* isSubmitting to false and submitSuccess to true; on the server a call of
\* onSubmit sets submitSuccess to true at once, never sets isSubmitting and
\* schedules nothing.
C13_SubmitThenSuccess ==
    /\ [][(onSubmit /\ ~isServer) =>
             /\ isSubmitting' = TRUE
             /\ ssrPending' = ssrPending + 1
             /\ submitSuccess' = submitSuccess
             /\ formData' = formData]_vars
    /\ [][(onSubmit /\ isServer) =>
             /\ submitSuccess' = TRUE
             /\ isSubmitting' = FALSE
             /\ ssrPending' = 0
             /\ formData' = formData]_vars
    /\ [][ssrPending' < ssrPending =>
             (isSubmitting' = FALSE /\ submitSuccess' = TRUE)]_vars
    /\ (ssrPending > 0) ~> (~isSubmitting /\ submitSuccess)

C13_Witness ==
    /\ ~isServer
    /\ lastOp = "submitTimeout"
    /\ ~isSubmitting
    /\ submitSuccess
    /\ ssrPending = 1

\* C15 (LiveSpec), as claimed: no signal is written by two different timer
\* callbacks of the same component instance.
C15_TimersWriteDisjointSignals ==
    \A p, q \in writers : p[2] = q[2] => p[1] = q[1]

\* C15 (LiveSpec), amended: two different timers of one instance write the
\* same signal only in ReportsComponent, and there only in these cases:
\* liveMetrics is written by the initial-load timeout and by the 500 ms
\* interval; realTimeData by the initial-load timeout, the refreshData
\* timeout and the 2 s interval; reports, performanceMetrics, chartData and
\* loading by the initial-load timeout and the refreshData timeout.  Every
\* other signal of HomeComponent, ProductsComponent and ReportsComponent
\* has a single writing timer.
C15_SharedSignalsOnlyInReports ==
    \A p, q \in writers :
        (p[2] = q[2] /\ p[1] # q[1]) =>
            /\ comp = "Reports"
            /\ \/ p[2] = "liveMetrics" /\ {p[1], q[1]} = {"load", "stream"}
               \/ p[2] = "realTimeData" /\ {p[1], q[1]} \subseteq {"load", "refresh", "dashboard"}
               \/ /\ p[2] \in {"reports", "performanceMetrics", "chartData", "loading"}
                  /\ {p[1], q[1]} = {"load", "refresh"}

C15_Witness ==
    /\ comp = "Reports"
    /\ {<<"load", "liveMetrics">>, <<"stream", "liveMetrics">>} \subseteq writers
    /\ {<<"load", "realTimeData">>, <<"dashboard", "realTimeData">>,
        <<"refresh", "realTimeData">>} \subseteq writers
    /\ <<"hydrate", "isHydrated">> \in writers
    /\ <<"connection", "connectionStatus">> \in writers

\* C16 (LiveSpec): ngOnDestroy clears the intervals stored in intervalId and
\* realTimeIntervalId (ReportsComponent) and in intervalId and
\* liveDataIntervalId (ProductsComponent): from the ngOnDestroy step on,
\* none of them is running and dataUpdateCount, dataStreamRate and
\* updateCount never increase.
C16_CountersStopAtDestroy ==
    [][stage' = "destroyed" =>
          /\ intervals' \cap {"dashboard", "stream", "renderClock", "liveData"} = {}
          /\ dataUpdateCount' <= dataUpdateCount
          /\ dataStreamRate' <= dataStreamRate
          /\ updateCount' <= updateCount]_vars

C16_Witness ==
    /\ comp = "Reports"
    /\ stage = "destroyed"
    /\ dataUpdateCount = 1
    /\ dataStreamRate = 1
    /\ dataUpdateCount < MaxCount
    /\ connectionStatus = "Reconnecting..."

\* C19 (LiveSpec): on the server no setInterval is started and no timer
\* callback writes a signal, so once ngOnInit has run the clock signal
\* (currentTime / serverTime / renderTime), liveMetrics, liveData,
\* dataUpdateCount, updateCount, realTimeStatus and connectionStatus keep
\* their value for ever.
C19_NoTimersOnServer ==
    /\ [](isServer => (intervals = {} /\ writers = {}))
    /\ [][(isServer /\ stage # "constructed") =>
             UNCHANGED <<timeSignal, liveMetrics, liveData, dataUpdateCount,
                         updateCount, realTimeStatus, connectionStatus>>]_vars

C19_Witness ==
    /\ isServer
    /\ comp = "Reports"
    /\ stage = "destroyed"
    /\ reports = ReportIds
    /\ ~loading
    /\ liveMetrics = <<>>
    /\ realTimeStatus = "Inactive"

\* ---- vocabulary of the metric claims (hundredths)
\* x limited to the range [0, 100].
Clamped(x) == IF x < 0 THEN 0 ELSE IF x > 10000 THEN 10000 ELSE x

\* The multiple of one tenth nearest to x, the upper one when x lies half
\* way.
NearestTenth(x) ==
    CHOOSE y \in (x - 5)..(x + 5) : y % 10 = 0 /\ y - 5 <= x /\ x < y + 5

C18_TrendFollowsDelta ==
    mDone =>
        \A i \in 1..Len(liveMetrics) :
            /\ liveMetrics[i].trend = "up" <=> mDeltas[i] > 200
            /\ liveMetrics[i].trend = "down" <=> mDeltas[i] < -200
            /\ liveMetrics[i].trend = "stable" <=> (mDeltas[i] >= -200 /\ mDeltas[i] <= 200)

C18_Witness ==
    /\ mDone
    /\ Len(liveMetrics) = 6
    /\ mDeltas[1] = 200 /\ liveMetrics[1].trend = "stable"
    /\ mDeltas[2] = -200 /\ liveMetrics[2].trend = "stable"
    /\ mDeltas[3] = 201 /\ liveMetrics[3].trend = "up"
    /\ mDeltas[4] = 499 /\ liveMetrics[4].trend = "up" /\ liveMetrics[4].value = 10000
    /\ mDeltas[6] = -201 /\ liveMetrics[6].trend = "down" /\ liveMetrics[6].value = 0

\* C21 (ContactSpec), as claimed: the csrFormData a completion callback
\* reads (and logs as submitted) passes all four validation rules, whatever
\* edits were made between onCSRSubmit and the callback.
C21_CompletionReadsValidData ==
    [][csrPending' < csrPending => ~AnyRuleFails(csrFormData)]_vars

\* C22 (DualFormSpec), as claimed: isCSRSubmitting is true exactly when a
\* completion callback of the validated form is pending, isSubmitting
\* exactly when one of the basic form is pending, and neither form ever has
\* more than one callback pending.
C22_SubmittingIffOnePending ==
    /\ isCSRSubmitting <=> csrPending > 0
    /\ csrPending <= 1
    /\ isSubmitting <=> ssrPending > 0
    /\ ssrPending <= 1

\* C23 (LiveSpec), as claimed: in the browser, once the catalog of
\* ProductsComponent has loaded, liveData has an entry for every product.
C23_LiveDataCoversCatalog ==
    (comp = "Products" /\ ~isServer /\ products # {} /\ ~loading) =>
        DOMAIN liveData = products

\* C24 (HydrationSpec): in every state isHydrated is true iff hydrationPhase
\* is 'hydrated' iff hydrationTime is non-null iff hydrationDuration is
\* non-null, and hydrationPhase is 'hydrated' only in the browser.
C24_HydrationFieldsAgree ==
    /\ isHydrated <=> hydrationPhase = "hydrated"
    /\ isHydrated <=> hydrationTime # Null
    /\ isHydrated <=> hydrationDuration # Null
    /\ hydrationPhase = "hydrated" => ~isServer

C24_Witness ==
    /\ isHydrated
    /\ hydrationPhase = "hydrated"
    /\ hydrationTime = 0
    /\ hydrationDuration = 0
    /\ ~isServer

\* ---- vocabulary of the SsrDemoComponent claims
Full == 100 * Halves
LoadingTicks == "loading" \in intervals
ErrorConsistent(e) ==
    /\ (e.hasError = FALSE) <=> (e.errorType = "none")
    /\ (e.errorType = "none") <=> (e.errorMessage = "")
AllActive(flag) == \A i \in DOMAIN animationStates : animationStates[i].isActive = flag
FieldsKept ==
    /\ DOMAIN animationStates = DOMAIN InitialAnimations
    /\ \A i \in DOMAIN animationStates :
         /\ animationStates[i].id = InitialAnimations[i].id
         /\ animationStates[i].duration = InitialAnimations[i].duration
         /\ animationStates[i].delay = InitialAnimations[i].delay

\* C25: in SsrDemoComponent's simulated loading, loadingProgress never
\* decreases and never exceeds 100; the tick at which the accumulated progress
\* reaches 100 clears the interval and sets isLoading to false; once isLoading
\* is false no step changes loadingProgress or isLoading.
C25_LoadingProgressMonotone ==
    [][/\ loadingProgress' >= loadingProgress
       /\ loadingProgress' <= 100
       /\ (progress < Full /\ progress' = Full)
            => (~LoadingTicks' /\ ~isLoading')
       /\ ~isLoading
            => (loadingProgress' = loadingProgress /\ isLoading' = isLoading)]_vars
C25_Witness ==
    /\ ~isServer
    /\ progress = Full
    /\ loadingProgress = 100
    /\ ~isLoading
    /\ ~LoadingTicks
    /\ <<"loading", "isLoading">> \in writers

\* C26: at the end of the tick that completes the simulated loading (isLoading
\* goes from true to false while the loading interval runs), loadingMessage is
\* 'SSR Demo ready!'.
C26_ReadyMessageAtCompletion ==
    [][(LoadingTicks /\ isLoading /\ ~isLoading')
         => loadingMessage' = "SSR Demo ready!"]_vars

\* C27: the error record is self-consistent in every state (hasError false
\* iff errorType 'none' iff errorMessage empty); a step that stores an error
\* raises retryCount by exactly 1; retryOperation clears the error and keeps
\* retryCount; switching the error demo off clears the error and sets
\* retryCount to 0.
C27_ErrorStateConsistent ==
    [][/\ ErrorConsistent(errorState')
       /\ (errorState' # errorState /\ errorState'.hasError)
            => errorState'.retryCount = errorState.retryCount + 1
       /\ retryPending' > retryPending
            => (/\ ~errorState'.hasError
                /\ errorState'.retryCount = errorState.retryCount)
       /\ (showErrors /\ ~showErrors')
            => (/\ ~errorState'.hasError
                /\ errorState'.retryCount = 0)]_vars
C27_Witness ==
    /\ ~errorState.hasError
    /\ errorState.errorType = "none"
    /\ errorState.retryCount = MaxRetry
    /\ retryPending > 0
    /\ showErrors

\* C28: a call of activateAnimations leaves every animation inactive, its
\* delayed callback leaves every animation active; whenever no activation
\* callback is pending every animation is active; id, duration and delay of
\* every animation stay as constructed.
C28_AnimationsSettleActive ==
    [][/\ activatePending' > activatePending => AllActive(FALSE)'
       /\ activatePending' < activatePending => AllActive(TRUE)'
       /\ activatePending' = 0 => AllActive(TRUE)'
       /\ FieldsKept']_vars
C28_Witness ==
    /\ activatePending = 0
    /\ animPending = 0
    /\ renderStart = Null
    /\ AllActive(TRUE)
    /\ FieldsKept
    /\ {<<"serverRender", "animationStates">>, <<"animate", "animationStates">>}
          \subseteq writers

\* ---- vocabulary of the catalog claim
Elems(s) == {s[i] : i \in DOMAIN s}
Matches(p) ==
    /\ selectedCategory = "all" \/ p.category = selectedCategory
    /\ showOnlyInStock => p.inStock
LetterRank(ch) ==
    IF IsLower(ch) THEN IndexIn(LowerCase, ch)
    ELSE IF IsUpper(ch) THEN IndexIn(UpperCase, ch)
    ELSE 0
\* a comes no later than b in a dictionary: letters compared without case.
DictionaryLeq(a, b) ==
    LET n == Min(Len(a), Len(b))
    IN  \/ \E k \in 1..n :
             /\ \A j \in 1..(k - 1) : LetterRank(a[j]) = LetterRank(b[j])
             /\ LetterRank(a[k]) < LetterRank(b[k])
        \/ /\ \A j \in 1..n : LetterRank(a[j]) = LetterRank(b[j])
           /\ Len(a) <= Len(b)
RatingOrZero(p) == IF p.rating = Null THEN 0 ELSE p.rating
InOrder(a, b) ==
    /\ sortBy = "price" => a.price <= b.price
    /\ sortBy = "rating" => RatingOrZero(a) >= RatingOrZero(b)
    /\ sortBy = "name" => DictionaryLeq(a.name, b.name)

\* C29: filteredAndSortedProducts returns exactly the stored products that
\* match the selected category ('all' matches every product) and, with
\* showOnlyInStock, are in stock, each once, ordered by the selected key
\* (price ascending, rating descending with a missing rating as 0, name
\* ascending); the stored list is left as it was.
C29_FilteredAndSortedView ==
    [][shown' # shown =>
         /\ Elems(shown') = {p \in Elems(productList) : Matches(p)}
         /\ Len(shown') = Cardinality(Elems(shown'))
         /\ \A i, j \in DOMAIN shown' : i < j => InOrder(shown'[i], shown'[j])
         /\ productList' = productList]_vars
C29_Witness ==
    /\ productList = mockProducts
    /\ selectedCategory = "all"
    /\ ~showOnlyInStock
    /\ sortBy = "name"
    /\ Len(shown) = 6
    /\ <<shown[1].id, shown[2].id, shown[3].id, shown[4].id, shown[5].id,
         shown[6].id>> = <<6, 1, 3, 4, 5, 2>>

\* ---- vocabulary of the middleware claim
Finished(q) == q.phase = "done"
WriteFailed(q) == q.write \in {"throws", "rejects"}

\* C30: a request that has left the SSR middleware had exactly one outcome:
\* the engine's response was written and next was not called; or the engine
\* gave no response and next() was called once without an error; or the
\* engine or the writing failed and next(error) was called once.  next is
\* never called more than once for a request.
C30_ExactlyOneOutcome ==
    \A r \in Requests :
        LET q == requests[r]
        IN  /\ Len(q.nextCalls) <= 1
            /\ Finished(q) =>
                 /\ (q.engine = "response" /\ q.write = "written")
                      => (q.written /\ q.nextCalls = <<>>)
                 /\ q.engine = "null" => (~q.written /\ q.nextCalls = <<"noError">>)
                 /\ (q.engine = "error" \/ WriteFailed(q))
                      => q.nextCalls = <<"error">>

====
